---- MODULE Spec2Model ----
(***************************************************************************)
(* A model of the YAML-driven workflow interpreter DSLWorkflow             *)
(* (app/temporal/dsl_workflow.py): the variable store self.variables,      *)
(* resolve_argument, and the execution of Activity / Sequence / Parallel   *)
(* statements on the asyncio event loop of one workflow run.               *)
(*                                                                         *)
(* Strings that resolve_argument inspects are modelled as token sequences: *)
(* a token is either the separator "." or a maximal dot-free piece, so     *)
(* "a.b" is <<"a", ".", "b">>, "a..b" is <<"a", ".", ".", "b">>, "found"   *)
(* is <<"found">> and "" is <<>>.  Dictionary keys are dot-free pieces.    *)
(***************************************************************************)
EXTENDS Naturals, Integers, Sequences, FiniteSets, TLC

VARIABLES
    input,          \* the DSLInput handed to run: [nodes, variables]
    variables,      \* self.variables, the variable store
    pc,             \* position of the run coroutine (or of the resolve harness)
    outcome,        \* what run reported to its caller
    status,         \* per statement: "pending", "running", "ok", "err"
    idx,            \* per Sequence: index of the element being executed
    failure,        \* per statement: the Activity whose error it raised (0: none)
    args,           \* per Activity: the resolved argument list passed to the substrate
    attempts,       \* per Activity: attempts the substrate has started
    future,         \* per Activity: the substrate's resolution of the awaited call
    gather,         \* per Parallel: state of the asyncio.gather future
    ready,          \* asyncio callbacks that are scheduled and have not run yet
    trace,          \* what workflow.logger recorded, in order
    resolved_arg,   \* resolve harness: the reference last passed to resolve_argument
    resolved_value, \* resolve harness: what resolve_argument returned for it
    source,         \* the YAML definition the trigger endpoint loads
    load_error,     \* the exception load_workflow_definition raised ("": none)
    children,       \* the runs started by start_child_workflow, in start order
    request,        \* the HTTP request an endpoint of the controller is serving
    response,       \* what the endpoint answered: [status, body]
    schedules       \* the schedules the Temporal server holds, by schedule id

vars == <<input, variables, pc, outcome, status, idx, failure, args, attempts,
          future, gather, ready, trace, resolved_arg, resolved_value,
          source, load_error, children, request, response, schedules>>

-----------------------------------------------------------------------------
(* Bounds of the model *)

\* nesting depth of the dictionaries the resolve harness stores
MaxDepth == 2
\* longest reference (in tokens) the resolve harness passes
MaxRefLen == 4
\* number of distinct values an operation may return
NumResults == 2

-----------------------------------------------------------------------------
(* Dynamic values *)

NoneV == [t |-> "none", v |-> 0]
IntV(i) == [t |-> "int", v |-> i]
BoolV(b) == [t |-> "bool", v |-> b]
StrV(s) == [t |-> "str", v |-> s]
DictV(d) == [t |-> "dict", v |-> d]

EmptyDict == [k \in {} |-> NoneV]

\* d[key] = value on a Python dict
DictSet(d, key, value) ==
    [k \in (DOMAIN d) \cup {key} |-> IF k = key THEN value ELSE d[k]]

\* d.get(key): None when the key is absent
DictGet(d, key) == IF key \in DOMAIN d THEN d[key] ELSE NoneV

\* d.get(key, default)
DictGetDefault(d, key, default) == IF key \in DOMAIN d THEN d[key] ELSE default

\* no endpoint has been called: there is no request, no response, no schedule
NoRequest == [endpoint |-> "", parameters |-> EmptyDict]
NoResponse == [status |-> 0, body |-> EmptyDict]
NoSchedules == EmptyDict
NoCall == request = NoRequest /\ response = NoResponse /\ schedules = NoSchedules

-----------------------------------------------------------------------------
(* resolve_argument *)

HasDot(arg) == \E i \in 1..Len(arg) : arg[i] = "."

\* the dot-free string a token sequence without "." spells
Piece(s) == IF s = <<>> THEN "" ELSE s[1]

FirstDot(arg) == CHOOSE i \in 1..Len(arg) : arg[i] = "." /\ \A j \in 1..(i-1) : arg[j] # "."

\* arg.split(".")
RECURSIVE Split(_)
Split(arg) ==
    IF ~HasDot(arg) THEN <<Piece(arg)>>
    ELSE LET i == FirstDot(arg)
         IN  <<Piece(SubSeq(arg, 1, i - 1))>> \o Split(SubSeq(arg, i + 1, Len(arg)))

\* the for loop over keys, from position i with the current value
RECURSIVE Walk(_, _, _, _)
Walk(arg, keys, i, value) ==
    IF i > Len(keys) THEN value
    ELSE IF value.t = "dict"
         THEN LET next == DictGet(value.v, keys[i])
              IN  IF next = NoneV THEN StrV(arg) ELSE Walk(arg, keys, i + 1, next)
         ELSE StrV(arg)

\* (mutation) self.variables.get(arg) or arg: a falsy stored value is lost
resolve_argument_nodot_or(store, arg) ==
    LET value == DictGet(store, Piece(arg))
    IN  IF value \in { NoneV, IntV(0), BoolV(FALSE), StrV(<<>>), DictV(EmptyDict) }
        THEN StrV(arg) ELSE value

\* lines 149-150
resolve_argument_nodot(store, arg) ==
    DictGetDefault(store, Piece(arg), StrV(arg))

resolve_argument(store, arg) ==
    IF ~HasDot(arg) THEN resolve_argument_nodot(store, arg)
    ELSE Walk(arg, Split(arg), 1, DictV(store))

-----------------------------------------------------------------------------
(* The statement model and the definitions the runs are given *)

\* RetryPolicy(maximum_attempts=3)
\* (mutation) RetryPolicy(maximum_attempts=4)
MaxAttemptsPlusOne == 3 + 1

MaxAttempts == 3

NoResult == [some |-> FALSE, name |-> ""]
Result(name) == [some |-> TRUE, name |-> name]

ActivityStatement(name, arguments, result) ==
    [kind |-> "activity", name |-> name, arguments |-> arguments,
     result |-> result, children |-> <<>>]

SequenceStatement(elements) ==
    [kind |-> "sequence", name |-> "", arguments |-> <<>>,
     result |-> NoResult, children |-> elements]

ParallelStatement(branches) ==
    [kind |-> "parallel", name |-> "", arguments |-> <<>>,
     result |-> NoResult, children |-> branches]

DSLInput(nodes, vs) == [nodes |-> nodes, variables |-> vs]

\* Sequence[load_search(shipperId) -> found, notify(found)], found already set
SearchNotify ==
    DSLInput(<< SequenceStatement(<<2, 3>>),
                ActivityStatement("load_search", << <<"shipperId">> >>, Result("found")),
                ActivityStatement("notify", << <<"found">> >>, NoResult) >>,
             [k \in {"shipperId", "found"} |->
                 IF k = "shipperId" THEN StrV(<<"S1">>) ELSE IntV(0)])

\* Parallel[X -> x, Y -> y]
TwoBranches ==
    DSLInput(<< ParallelStatement(<<2, 3>>),
                ActivityStatement("X", <<>>, Result("x")),
                ActivityStatement("Y", <<>>, Result("y")) >>,
             EmptyDict)

\* Sequence[Parallel[X -> r, Y -> r], Z(r, run_id) -> workflow_status]
RaceThenUse ==
    DSLInput(<< SequenceStatement(<<2, 5>>),
                ParallelStatement(<<3, 4>>),
                ActivityStatement("X", <<>>, Result("r")),
                ActivityStatement("Y", <<>>, Result("r")),
                ActivityStatement("Z", << <<"r">>, <<"run_id">> >>, Result("workflow_status")) >>,
             [k \in {"workflow_status", "run_id"} |-> StrV(<<"mine">>)])

\* Parallel[Sequence[A -> a, B(a, cfg.key)], C -> a]
SequenceBesideActivity ==
    DSLInput(<< ParallelStatement(<<2, 5>>),
                SequenceStatement(<<3, 4>>),
                ActivityStatement("A", <<>>, Result("a")),
                ActivityStatement("B", << <<"a">>, <<"cfg", ".", "key">> >>, NoResult),
                ActivityStatement("C", <<>>, Result("a")) >>,
             [k \in {"cfg"} |-> DictV([j \in {"key"} |-> IntV(5)])])

\* Sequence[Sequence[], Parallel[], A(k, missing) -> ""]
EmptyThenActivity ==
    DSLInput(<< SequenceStatement(<<2, 3, 4>>),
                SequenceStatement(<<>>),
                ParallelStatement(<<>>),
                ActivityStatement("A", << <<"k">>, <<"missing">> >>, Result("")) >>,
             [k \in {"k"} |-> NoneV])

\* an empty Sequence and an empty Parallel as the root
EmptySequence == DSLInput(<< SequenceStatement(<<>>) >>, EmptyDict)
EmptyParallel == DSLInput(<< ParallelStatement(<<>>) >>,
                          [k \in {"attempt"} |-> IntV(9)])

\* Parallel[Parallel[X -> x], Y]
NestedParallel ==
    DSLInput(<< ParallelStatement(<<2, 4>>),
                ParallelStatement(<<3>>),
                ActivityStatement("X", <<>>, Result("x")),
                ActivityStatement("Y", <<>>, NoResult) >>,
             EmptyDict)

\* Sequence[Sequence[A -> a], Parallel[C(a), D]]
SequenceThenParallel ==
    DSLInput(<< SequenceStatement(<<2, 4>>),
                SequenceStatement(<<3>>),
                ActivityStatement("A", <<>>, Result("a")),
                ParallelStatement(<<5, 6>>),
                ActivityStatement("C", << <<"a">> >>, NoResult),
                ActivityStatement("D", <<>>, NoResult) >>,
             EmptyDict)

\* Sequence[A -> run_id, B(run_id)]: a result stored under a metadata key
OverwriteMetadata ==
    DSLInput(<< SequenceStatement(<<2, 3>>),
                ActivityStatement("A", <<>>, Result("run_id")),
                ActivityStatement("B", << <<"run_id">> >>, NoResult) >>,
             EmptyDict)

\* Parallel[Sequence[], Parallel[], A -> a]: empty statements as branches
EmptyBranches ==
    DSLInput(<< ParallelStatement(<<2, 3, 4>>),
                SequenceStatement(<<>>),
                ParallelStatement(<<>>),
                ActivityStatement("A", <<>>, Result("a")) >>,
             EmptyDict)

\* Parallel[C, Sequence[A -> a, Parallel[Parallel[B(a)]]]]
OrphanBranch ==
    DSLInput(<< ParallelStatement(<<2, 3>>),
                ActivityStatement("C", <<>>, NoResult),
                SequenceStatement(<<4, 5>>),
                ActivityStatement("A", <<>>, Result("a")),
                ParallelStatement(<<6>>),
                ParallelStatement(<<7>>),
                ActivityStatement("B", << <<"a">> >>, NoResult) >>,
             EmptyDict)

\* Parallel[Sequence[A -> a, B(c, a)], C -> c]
SharedRead ==
    DSLInput(<< ParallelStatement(<<2, 5>>),
                SequenceStatement(<<3, 4>>),
                ActivityStatement("A", <<>>, Result("a")),
                ActivityStatement("B", << <<"c">>, <<"a">> >>, NoResult),
                ActivityStatement("C", <<>>, Result("c")) >>,
             EmptyDict)

Definitions ==
    { SearchNotify, TwoBranches, RaceThenUse, SequenceBesideActivity,
      EmptyThenActivity, EmptySequence, EmptyParallel, NestedParallel,
      SequenceThenParallel, OverwriteMetadata, EmptyBranches }

\* what an operation may return
ResultValues == { IntV(6 + i) : i \in 1..NumResults }

\* workflow.info() of the run
Info == [workflow_id |-> StrV(<<"dsl-workflow-1">>),
         run_id |-> StrV(<<"run-1">>),
         workflow_type |-> StrV(<<"DSLWorkflow">>),
         attempt |-> IntV(1)]

-----------------------------------------------------------------------------
(* The tree of the run's definition *)

Nodes == DOMAIN input.nodes
Node(n) == input.nodes[n]
Root == 1

Children(n) == { Node(n).children[i] : i \in 1..Len(Node(n).children) }

IsActivity(n) == Node(n).kind = "activity"
IsSequence(n) == Node(n).kind = "sequence"
IsParallel(n) == Node(n).kind = "parallel"

\* the statement whose execute_sequence / execute_parallel called execute_statement(n)
Caller(n) == IF n = Root THEN 0 ELSE CHOOSE p \in Nodes : n \in Children(p)

RECURSIVE Descendants(_)
Descendants(n) == {n} \cup UNION { Descendants(c) : c \in Children(n) }

Activities(n) == { a \in Descendants(n) : IsActivity(a) }

\* Python truthiness of stmt.activity.result
Truthy(result) == result.some /\ result.name # ""

-----------------------------------------------------------------------------
(* The run's mutable state as one record, so that the coroutine code, which *)
(* runs from one suspension point to the next, is one function of it        *)

Cur ==
    [variables |-> variables, pc |-> pc, outcome |-> outcome, status |-> status,
     idx |-> idx, failure |-> failure, args |-> args, attempts |-> attempts,
     future |-> future, gather |-> gather, ready |-> ready, trace |-> trace]

Event(ev, n, val) == [ev |-> ev, node |-> n, val |-> val]
Log(m, ev, n, val) == [m EXCEPT !.trace = Append(@, Event(ev, n, val))]

Handle(h, n) == [h |-> h, node |-> n]
Schedule(m, hs) == [m EXCEPT !.ready = @ \cup hs]

NoOutcome == [kind |-> "none", snapshot |-> NoneV, failure |-> 0]
PendingFuture == [state |-> "pending", value |-> NoneV]
PendingGather == [state |-> "pending", nfinished |-> 0, failure |-> 0]

\* (mutation) the metadata first and the definition's variables over them
SeedVariablesOverMetadata(vs) ==
    [k \in DOMAIN vs \cup DOMAIN Info |-> IF k \in DOMAIN vs THEN vs[k] ELSE Info[k]]

\* run, lines 86-95: the store is a copy of input.variables, then the metadata
SeedVariables(vs) ==
    DictSet(DictSet(DictSet(DictSet(vs,
        "workflow_id", Info.workflow_id),
        "run_id", Info.run_id),
        "workflow_type", Info.workflow_type),
        "attempt", Info.attempt)

\* (mutation) the arguments resolved against the definition's variables, as a
\* loader that resolved them at parse time would have left them
ResolveArgumentsAtLoad(store, arguments) ==
    [i \in 1..Len(arguments) |-> resolve_argument(SeedVariables(input.variables), arguments[i])]

\* execute_activity up to its await: the arguments are resolved against the
\* store as it is now, and the operation is handed to the substrate
ResolveArguments(store, arguments) ==
    [i \in 1..Len(arguments) |-> resolve_argument(store, arguments[i])]

\* the Activities in a branch beside the one n is in, under some Parallel
Beside(n) ==
    { a \in Nodes : IsActivity(a) /\
        \E p \in Nodes : IsParallel(p) /\
            \E b1, b2 \in Children(p) : /\ b1 # b2
                                        /\ n \in Descendants(b1)
                                        /\ a \in Descendants(b2) }

\* (mutation) every branch works on its own namespace: what the Activities of
\* the branches beside it have stored is not seen
execute_activity_branch_private(m, n) ==
    LET hidden == { Node(a).result.name :
                      a \in { b \in Beside(n) : m.status[b] = "ok" /\ Truthy(Node(b).result) } }
        seeded == SeedVariables(input.variables)
        store == [k \in (DOMAIN m.variables \ hidden) \cup (hidden \cap DOMAIN seeded) |->
                     IF k \in hidden THEN seeded[k] ELSE m.variables[k]]
        resolved == ResolveArguments(store, Node(n).arguments)
    IN  Log([m EXCEPT !.status[n] = "running",
                      !.args[n] = resolved,
                      !.attempts[n] = 1],
            "invoke", n, resolved)

execute_activity(m, n) ==
    LET resolved == ResolveArguments(m.variables, Node(n).arguments)
    IN  Log([m EXCEPT !.status[n] = "running",
                      !.args[n] = resolved,
                      !.attempts[n] = 1],
            "invoke", n, resolved)

\* (mutation) "if stmt.activity.result is not None": the empty name is a key
StoreResultUnderAnyName(store, result, value) ==
    IF result.some THEN DictSet(store, result.name, value) ELSE store

\* (mutation) the result added to a copy of the store taken before the await
\* (here: the seeded store), which then replaces the store
StoreResultOnSeededCopy(store, result, value) ==
    IF Truthy(result)
    THEN DictSet(SeedVariables(input.variables), result.name, value)
    ELSE store

\* (mutation) self.variables = {name: result}: the store is replaced
StoreResultReplacesStore(store, result, value) ==
    IF Truthy(result) THEN DictSet(EmptyDict, result.name, value) ELSE store

\* (mutation) self.variables.setdefault(name, result): the first write wins
StoreResultIfAbsent(store, result, value) ==
    IF Truthy(result) /\ result.name \notin DOMAIN store
    THEN DictSet(store, result.name, value) ELSE store

\* execute_activity after its await returned result
StoreResult(store, result, value) ==
    IF Truthy(result) THEN DictSet(store, result.name, value) ELSE store

\* (mutation) await asyncio.wait(tasks), which raises ValueError on no tasks
execute_parallel_wait(m, p) ==
    IF Node(p).children = <<>>
    THEN Log([m EXCEPT !.status[p] = "err", !.failure[p] = p], "parallel", p, <<>>)
    ELSE Schedule(Log([m EXCEPT !.status[p] = "running",
                                !.gather[p] = PendingGather],
                      "parallel", p, <<>>),
                  { Handle("step", b) : b \in Children(p) })

\* (mutation) the branches awaited one after the other: only the task of the
\* first branch exists when execute_parallel suspends
execute_parallel_one_by_one(m, p) ==
    IF Node(p).children = <<>>
    THEN Log(Log([m EXCEPT !.status[p] = "ok"], "parallel", p, <<>>), "joined", p, <<>>)
    ELSE Schedule(Log([m EXCEPT !.status[p] = "running",
                                !.gather[p] = PendingGather],
                      "parallel", p, <<>>),
                  { Handle("step", Node(p).children[1]) })

\* execute_parallel up to its await: one task per branch, then gather.
\* gather of no tasks is a future that is already done.
execute_parallel(m, p) ==
    IF Node(p).children = <<>>
    THEN Log(Log([m EXCEPT !.status[p] = "ok"], "parallel", p, <<>>), "joined", p, <<>>)
    ELSE Schedule(Log([m EXCEPT !.status[p] = "running",
                                !.gather[p] = PendingGather],
                      "parallel", p, <<>>),
                  { Handle("step", b) : b \in Children(p) })

RECURSIVE execute_statement(_, _), SequenceLoop(_, _, _)

\* (mutation) the elements started one after the other without awaiting them
RECURSIVE SequenceLoopNoAwait(_, _, _)
SequenceLoopNoAwait(m, s, i) ==
    IF i > Len(Node(s).children)
    THEN [m EXCEPT !.status[s] = "ok"]
    ELSE SequenceLoopNoAwait(execute_statement([m EXCEPT !.idx[s] = i], Node(s).children[i]),
                             s, i + 1)

\* the for loop of execute_sequence from element i on: an element that
\* completes without suspending lets the loop go on in the same step
SequenceLoop(m, s, i) ==
    IF i > Len(Node(s).children)
    THEN [m EXCEPT !.status[s] = "ok"]
    ELSE LET elem == Node(s).children[i]
             m1 == execute_statement([m EXCEPT !.idx[s] = i], elem)
         IN  IF m1.status[elem] = "ok" THEN SequenceLoop(m1, s, i + 1) ELSE m1

\* (mutation) for elem in stmt.sequence.elements[1:]
execute_sequence_from_second(m, s) ==
    SequenceLoop(Log([m EXCEPT !.status[s] = "running"], "sequence", s, <<>>), s, 2)

execute_sequence(m, s) ==
    SequenceLoop(Log([m EXCEPT !.status[s] = "running"], "sequence", s, <<>>), s, 1)

\* runs statement n until it completes or suspends
execute_statement(m, n) ==
    CASE IsActivity(n) -> execute_activity(m, n)
      [] IsSequence(n) -> execute_sequence(m, n)
      [] IsParallel(n) -> execute_parallel(m, n)

\* run after execute_statement(input.root): the status is added and the store
\* returned; an exception leaves run with nothing returned
RunReturn(m) ==
    LET store == DictSet(m.variables, "workflow_status", StrV(<<"completed">>))
    IN  [m EXCEPT !.variables = store,
                  !.pc = "returned",
                  !.outcome = [kind |-> "success", snapshot |-> DictV(store), failure |-> 0]]

\* (mutation) run catches the exception and returns the store as it is
RunRaiseReturnsStore(m, f) ==
    [m EXCEPT !.pc = "returned",
              !.outcome = [kind |-> "success", snapshot |-> DictV(m.variables), failure |-> 0]]

RunRaise(m, f) ==
    [m EXCEPT !.pc = "failed",
              !.outcome = [kind |-> "failure", snapshot |-> NoneV, failure |-> f]]

\* (mutation) the element's exception is swallowed
AwaitElementSwallows(out) == "next"

\* line 212, await self.execute_statement(elem): there is no try/except, so an
\* element that raised makes execute_sequence raise, and one that returned
\* lets the loop go on
AwaitElement(out) == IF out = "err" THEN "raise" ELSE "next"

\* Statement n has ended with out ("ok" or "err", f the Activity whose error
\* it raises): control goes back to whoever awaits it.
RECURSIVE Return(_, _, _, _)
Return(m, n, out, f) ==
    LET m1 == [m EXCEPT !.status[n] = out, !.failure[n] = f]
        c == Caller(n)
    IN  IF n = Root
        THEN IF out = "ok" THEN RunReturn(m1) ELSE RunRaise(m1, f)
        ELSE IF IsParallel(c)
        THEN \* n was a task of its own: its done callback is scheduled
             Schedule(m1, {Handle("done", n)})
        ELSE IF AwaitElement(out) = "raise"
        THEN Return(m1, c, "err", f)
        ELSE LET m2 == SequenceLoop(m1, c, m1.idx[c] + 1)
             IN  IF m2.status[c] = "ok" THEN Return(m2, c, "ok", 0) ELSE m2

\* (mutation) the join resolves only when every branch has succeeded: a
\* failed branch is counted and never reported
GatherDoneSuccessOnly(m, p, b) ==
    LET g == m.gather[p]
        n == IF m.status[b] = "err" THEN g.nfinished ELSE g.nfinished + 1
    IN  IF g.state = "pending" /\ m.status[b] # "err" /\ n = Len(Node(p).children)
        THEN Schedule([m EXCEPT !.gather[p] =
                          [state |-> "ok", nfinished |-> n, failure |-> 0]],
                      {Handle("wake", p)})
        ELSE [m EXCEPT !.gather[p].nfinished = n]

\* (mutation) the join resolves as soon as one branch has finished
GatherDoneFirstCompleted(m, p, b) ==
    LET g == m.gather[p]
        n == g.nfinished + 1
    IN  IF g.state # "pending"
        THEN [m EXCEPT !.gather[p].nfinished = n]
        ELSE IF m.status[b] = "err"
        THEN Schedule([m EXCEPT !.gather[p] =
                          [state |-> "err", nfinished |-> n, failure |-> m.failure[b]]],
                      {Handle("wake", p)})
        ELSE Schedule([m EXCEPT !.gather[p] =
                          [state |-> "ok", nfinished |-> n, failure |-> 0]],
                      {Handle("wake", p)})

\* (mutation) gather(..., return_exceptions=True): a branch's exception is one
\* more result
GatherDoneReturnExceptions(m, p, b) ==
    LET g == m.gather[p]
        n == g.nfinished + 1
    IN  IF g.state # "pending"
        THEN [m EXCEPT !.gather[p].nfinished = n]
        ELSE IF n = Len(Node(p).children)
        THEN Schedule([m EXCEPT !.gather[p] =
                          [state |-> "ok", nfinished |-> n, failure |-> 0]],
                      {Handle("wake", p)})
        ELSE [m EXCEPT !.gather[p].nfinished = n]

\* asyncio.gather's callback for the task of branch b
GatherDone(m, p, b) ==
    LET g == m.gather[p]
        n == g.nfinished + 1
    IN  IF g.state # "pending"
        THEN [m EXCEPT !.gather[p].nfinished = n]
        ELSE IF m.status[b] = "err"
        THEN Schedule([m EXCEPT !.gather[p] =
                          [state |-> "err", nfinished |-> n, failure |-> m.failure[b]]],
                      {Handle("wake", p)})
        ELSE IF n = Len(Node(p).children)
        THEN Schedule([m EXCEPT !.gather[p] =
                          [state |-> "ok", nfinished |-> n, failure |-> 0]],
                      {Handle("wake", p)})
        ELSE [m EXCEPT !.gather[p].nfinished = n]

\* execute_parallel after await asyncio.gather(*tasks)
execute_parallel_resumed(m, p) ==
    IF m.gather[p].state = "err"
    THEN Return(m, p, "err", m.gather[p].failure)
    ELSE Return(Log(m, "joined", p, <<>>), p, "ok", 0)

\* execute_activity after await workflow.execute_activity
execute_activity_resumed(m, n) ==
    IF m.future[n].state = "err"
    THEN Return(m, n, "err", n)
    ELSE LET value == m.future[n].value
             m1 == Log(m, "complete", n, <<value>>)
             m2 == [m1 EXCEPT !.variables = StoreResult(@, Node(n).result, value)]
         IN  Return(m2, n, "ok", 0)

\* the first step of the task created for branch b
TaskStep(m, b) ==
    LET m1 == execute_statement(m, b)
    IN  IF m1.status[b] = "ok" THEN Return(m1, b, "ok", 0) ELSE m1

\* dict(input.variables) raises TypeError on None: the workflow task fails
\* before the store exists, and the run never gets past it
CanSeed(vs) == vs # NoneV

\* DSLWorkflow.run
run(m) ==
    IF ~CanSeed(input.variables) THEN [m EXCEPT !.pc = "task_failed"]
    ELSE
    LET m0 == [m EXCEPT !.variables = SeedVariables(input.variables), !.pc = "executing"]
        m1 == execute_statement(m0, Root)
    IN  IF m1.status[Root] = "ok" THEN Return(m1, Root, "ok", 0) ELSE m1

-----------------------------------------------------------------------------
(* dsl_loader: from the YAML document to the DSLInput *)

\* a key of a YAML mapping: absent, present with null, present with a value
\* (d is a value of the key's type, so that the records stay comparable)
Absent(d) == [present |-> FALSE, null |-> FALSE, value |-> d]
Null(d)   == [present |-> TRUE,  null |-> TRUE,  value |-> d]
Given(x)  == [present |-> TRUE,  null |-> FALSE, value |-> x]

Kinds == { "activity", "sequence", "parallel" }
RawKeys == Kinds \cup { "comment" }

\* the mapping under the activity key
RawActivity(name, arguments, result) ==
    [name |-> name, arguments |-> arguments, result |-> result]

NoActivity == RawActivity(Absent(""), Absent(<<>>), Absent(""))

\* a raw node: the keys of the mapping, the mapping under activity, the list
\* under sequence.elements and the list under parallel.branches (raw nodes are
\* numbered, node 1 is the root; a list holds the numbers of its nodes)
RawNode(keys, activity, elements, branches) ==
    [keys |-> keys, activity |-> activity, elements |-> elements, branches |-> branches]

RawActivityNode(name, arguments, result) ==
    RawNode({"activity"}, RawActivity(name, arguments, result), <<>>, <<>>)
RawSequenceNode(elements) == RawNode({"sequence"}, NoActivity, elements, <<>>)
RawParallelNode(branches) == RawNode({"parallel"}, NoActivity, <<>>, branches)

RawDocument(vs, nodes) == [variables |-> vs, nodes |-> nodes]

\* the file at yaml_path, when there is one
Source(doc) == [exists |-> TRUE, doc |-> doc]
MissingSource == [exists |-> FALSE, doc |-> RawDocument(Absent(EmptyDict), <<>>)]
\* a run started on a DSLInput that was not loaded from a file
NoSource == MissingSource

\* what a parse function hands back: the exception it raised or the statements
\* it built, the first of them being the statement parsed and the others its
\* descendants in the order they were parsed; ids are the numbers of the direct
\* children parsed by parse_children
Raised(e) == [error |-> e, nodes |-> <<>>, ids |-> <<>>]
Parsed(nodes, ids) == [error |-> "", nodes |-> nodes, ids |-> ids]

\* parse_statement, had it insisted on exactly one of the three keys
statement_kind_exactly_one(keys) ==
    IF Cardinality(keys \cap Kinds) # 1 THEN "unknown"
    ELSE CHOOSE k \in Kinds : k \in keys

\* parse_statement, lines 47-53: the if/elif chain on the keys of the node
statement_kind(keys) ==
    IF "activity" \in keys THEN "activity"
    ELSE IF "sequence" \in keys THEN "sequence"
    ELSE IF "parallel" \in keys THEN "parallel"
    ELSE "unknown"

\* parse_activity_statement, had it rejected an empty name
parse_activity_statement_nonempty(activity_dict) ==
    IF ~activity_dict.name.present THEN Raised("KeyError")
    ELSE IF activity_dict.name.value = "" THEN Raised("ValueError")
    ELSE Parsed(<< ActivityStatement(
                      activity_dict.name.value,
                      IF activity_dict.arguments.present /\ ~activity_dict.arguments.null
                      THEN activity_dict.arguments.value ELSE <<>>,
                      IF activity_dict.result.present /\ ~activity_dict.result.null
                      THEN Result(activity_dict.result.value) ELSE NoResult) >>, <<>>)

\* parse_activity_statement: arguments defaults to [] when absent or null,
\* activity_dict["name"] raises KeyError when there is no name, result is
\* activity_dict.get("result")
parse_activity_statement(activity_dict) ==
    LET arguments == IF activity_dict.arguments.present /\ ~activity_dict.arguments.null
                     THEN activity_dict.arguments.value ELSE <<>>
        result == IF activity_dict.result.present /\ ~activity_dict.result.null
                  THEN Result(activity_dict.result.value) ELSE NoResult
    IN  IF ~activity_dict.name.present THEN Raised("KeyError")
        ELSE Parsed(<< ActivityStatement(activity_dict.name.value, arguments, result) >>, <<>>)

RECURSIVE parse_statement(_, _, _), parse_children(_, _, _, _)

\* the list comprehension over elements or branches, had it dropped the
\* children that do not parse
parse_children_skipping(raw, list, k, base) ==
    IF k > Len(list) THEN Parsed(<<>>, <<>>)
    ELSE LET head == parse_statement(raw, list[k], base)
         IN  IF head.error # "" THEN parse_children(raw, list, k + 1, base)
             ELSE LET rest == parse_children(raw, list, k + 1, base + Len(head.nodes))
                  IN  IF rest.error # "" THEN rest
                      ELSE Parsed(head.nodes \o rest.nodes, <<base>> \o rest.ids)

\* [parse_statement(elem) for elem in ...]: the children from the k-th on, in
\* list order, the first of them numbered base; the first exception ends it
parse_children(raw, list, k, base) ==
    IF k > Len(list) THEN Parsed(<<>>, <<>>)
    ELSE LET head == parse_statement(raw, list[k], base)
         IN  IF head.error # "" THEN head
             ELSE LET rest == parse_children(raw, list, k + 1, base + Len(head.nodes))
                  IN  IF rest.error # "" THEN rest
                      ELSE Parsed(head.nodes \o rest.nodes, <<base>> \o rest.ids)

\* parse_sequence_statement, had it listed the elements last to first
parse_sequence_statement_reversed(raw, n, base) ==
    LET elements == parse_children(raw, raw[n].elements, 1, base + 1)
        ids == elements.ids
    IN  IF elements.error # "" THEN elements
        ELSE Parsed(<< SequenceStatement([k \in 1..Len(ids) |-> ids[Len(ids) + 1 - k]]) >>
                    \o elements.nodes, <<>>)

\* parse_sequence_statement / parse_parallel_statement of raw node n
parse_sequence_statement(raw, n, base) ==
    LET elements == parse_children(raw, raw[n].elements, 1, base + 1)
    IN  IF elements.error # "" THEN elements
        ELSE Parsed(<< SequenceStatement(elements.ids) >> \o elements.nodes, <<>>)

parse_parallel_statement(raw, n, base) ==
    LET branches == parse_children(raw, raw[n].branches, 1, base + 1)
    IN  IF branches.error # "" THEN branches
        ELSE Parsed(<< ParallelStatement(branches.ids) >> \o branches.nodes, <<>>)

\* parse_statement of raw node n, the statement built being numbered base
parse_statement(raw, n, base) ==
    LET kind == statement_kind(raw[n].keys)
    IN  IF kind = "activity" THEN parse_activity_statement(raw[n].activity)
        ELSE IF kind = "sequence" THEN parse_sequence_statement(raw, n, base)
        ELSE IF kind = "parallel" THEN parse_parallel_statement(raw, n, base)
        ELSE Raised("ValueError")

\* workflow_dict.get("variables", {}): the default is used for an absent key
\* only, a key present with null gives None
get_variables(workflow_dict) ==
    IF ~workflow_dict.variables.present THEN EmptyDict
    ELSE IF workflow_dict.variables.null THEN NoneV
    ELSE workflow_dict.variables.value

Loaded(definition) == [error |-> "", input |-> definition]
LoadRaised(e) == [error |-> e, input |-> DSLInput(<<>>, EmptyDict)]

\* load_workflow_definition(yaml_path)
load_workflow_definition(src) ==
    IF ~src.exists THEN LoadRaised("FileNotFoundError")
    ELSE LET vs == get_variables(src.doc)
             root == parse_statement(src.doc.nodes, 1, 1)
         IN  IF root.error # "" THEN LoadRaised(root.error)
             ELSE Loaded(DSLInput(root.nodes, vs))

-----------------------------------------------------------------------------
(* Actions *)

\* (mutation) self.variables = input.variables: the store is the mapping of
\* the definition itself
DefinitionAliased(definition, store) ==
    [definition EXCEPT !.variables = store]

\* the DSLInput after a step of the run: self.variables is a copy
\* (dict(input.variables)) and the statements are only read
DefinitionAfter(definition, store) == definition

Install(m) ==
    /\ input' = DefinitionAfter(input, m.variables)
    /\ variables' = m.variables
    /\ pc' = m.pc
    /\ outcome' = m.outcome
    /\ status' = m.status
    /\ idx' = m.idx
    /\ failure' = m.failure
    /\ args' = m.args
    /\ attempts' = m.attempts
    /\ future' = m.future
    /\ gather' = m.gather
    /\ ready' = m.ready
    /\ trace' = m.trace
    /\ UNCHANGED <<resolved_arg, resolved_value, source, load_error, children,
                   request, response, schedules>>

\* the substrate starts the run
StartRun ==
    /\ pc = "init"
    /\ Install(run(Cur))

InFlight(n) ==
    /\ n \in Nodes
    /\ IsActivity(n)
    /\ status[n] = "running"
    /\ future[n].state = "pending"

\* The substrate delivers resolutions only to a run that is still open.
\* An attempt of the operation succeeds with value v.
AttemptSucceeds(n, v) ==
    /\ pc = "executing"
    /\ InFlight(n)
    /\ Install(Schedule([Cur EXCEPT !.future[n] = [state |-> "ok", value |-> v]],
                        {Handle("resume", n)}))

\* (mutation) the retry is made by the interpreter, which resolves the
\* arguments again against the store as it is then
AttemptRetriedResolvesAgain(n) ==
    /\ pc = "executing"
    /\ InFlight(n)
    /\ attempts[n] < MaxAttempts
    /\ Install([Cur EXCEPT !.attempts[n] = @ + 1,
                           !.args[n] = ResolveArguments(variables, Node(n).arguments)])

\* An attempt fails and the retry policy allows another one.
AttemptRetried(n) ==
    /\ pc = "executing"
    /\ InFlight(n)
    /\ attempts[n] < MaxAttempts
    /\ Install([Cur EXCEPT !.attempts[n] = @ + 1])

\* The last attempt the policy allows fails: the awaited call raises.
AttemptsExhausted(n) ==
    /\ pc = "executing"
    /\ InFlight(n)
    /\ attempts[n] >= MaxAttempts
    /\ Install(Schedule([Cur EXCEPT !.future[n] = [state |-> "err", value |-> NoneV]],
                        {Handle("resume", n)}))

Take(h) == [Cur EXCEPT !.ready = @ \ {h}]

\* The event loop runs one scheduled callback; any scheduled one may be next.
LoopTaskStep(h) ==
    /\ h \in ready /\ h.h = "step"
    /\ Install(TaskStep(Take(h), h.node))

LoopActivityResume(h) ==
    /\ h \in ready /\ h.h = "resume"
    /\ Install(execute_activity_resumed(Take(h), h.node))

LoopGatherDone(h) ==
    /\ h \in ready /\ h.h = "done"
    /\ Install(GatherDone(Take(h), Caller(h.node), h.node))

LoopParallelResume(h) ==
    /\ h \in ready /\ h.h = "wake"
    /\ Install(execute_parallel_resumed(Take(h), h.node))

\* the instance before run is called on it
InitRun ==
    /\ variables = EmptyDict
    /\ pc = "init"
    /\ outcome = NoOutcome
    /\ status = [n \in DOMAIN input.nodes |-> "pending"]
    /\ idx = [n \in DOMAIN input.nodes |-> 0]
    /\ failure = [n \in DOMAIN input.nodes |-> 0]
    /\ args = [n \in DOMAIN input.nodes |-> <<>>]
    /\ attempts = [n \in DOMAIN input.nodes |-> 0]
    /\ future = [n \in DOMAIN input.nodes |-> PendingFuture]
    /\ gather = [n \in DOMAIN input.nodes |-> PendingGather]
    /\ ready = {}
    /\ trace = <<>>
    /\ resolved_arg = <<>>
    /\ resolved_value = NoneV
    /\ source = NoSource
    /\ load_error = ""
    /\ children = <<>>
    /\ NoCall

Init == input \in Definitions /\ InitRun

Next ==
    \/ StartRun
    \/ \E n \in Nodes, v \in ResultValues : AttemptSucceeds(n, v)
    \/ \E n \in Nodes : AttemptRetried(n)
    \/ \E n \in Nodes : AttemptsExhausted(n)
    \/ \E h \in ready : LoopTaskStep(h)
    \/ \E h \in ready : LoopActivityResume(h)
    \/ \E h \in ready : LoopGatherDone(h)
    \/ \E h \in ready : LoopParallelResume(h)

Spec == Init /\ [][Next]_vars

\* The environment guarantees progress: the substrate starts the run and
\* resolves every invocation, the event loop runs every scheduled callback.
\* Checked on the definitions below (a Sequence, a Parallel, a Parallel inside
\* a Sequence and inside a Parallel, the empty statements).
TerminationDefinitions ==
    { SearchNotify, TwoBranches, RaceThenUse, NestedParallel, EmptyThenActivity,
      EmptySequence, EmptyParallel }

InitFair == Init /\ input \in TerminationDefinitions

FairSpec == InitFair /\ [][Next]_vars /\ WF_vars(Next)

\* A branch that still has callbacks to run when its sibling's failure ends
\* the run: the run of OrphanBranch alone.
InitOrphan == input = OrphanBranch /\ InitRun

SpecOrphan == InitOrphan /\ [][Next]_vars

\* Branches that read what a branch beside them has written: the runs of
\* SharedRead and of SequenceBesideActivity.
InitShared == input \in { SharedRead, SequenceBesideActivity } /\ InitRun

SpecShared == InitShared /\ [][Next]_vars

-----------------------------------------------------------------------------
(* The trigger endpoint: load the YAML definition, then start the run *)

OneVariable == [k \in {"k"} |-> IntV(1)]

NamedActivity(name, result) == RawActivity(Given(name), Absent(<<>>), Given(result))

\* a node with the keys K (activity A -> a, sequence [S], parallel [P] under
\* the keys it has), as the root
KeyedRoot(K) ==
    RawDocument(Absent(EmptyDict),
        << RawNode(K, NamedActivity("A", "a"), <<2>>, <<3>>),
           RawActivityNode(Given("S"), Absent(<<>>), Absent("")),
           RawActivityNode(Given("P"), Absent(<<>>), Absent("")) >>)

\* the same node as the second element of a Sequence, after activity F
KeyedElement(K) ==
    RawDocument(Absent(EmptyDict),
        << RawSequenceNode(<<2, 3>>),
           RawActivityNode(Given("F"), Absent(<<>>), Absent("")),
           RawNode(K, NamedActivity("A", "a"), <<4>>, <<5>>),
           RawActivityNode(Given("S"), Absent(<<>>), Absent("")),
           RawActivityNode(Given("P"), Absent(<<>>), Absent("")) >>)

\* one activity node as the root, every shape of name, arguments and result
ActivityRoots ==
    { RawDocument(Given(OneVariable), << RawActivityNode(name, arguments, result) >>) :
        name \in { Absent(""), Given(""), Given("A") },
        arguments \in { Absent(<<>>), Null(<<>>), Given(<<>>), Given(<< <<"k">> >>) },
        result \in { Absent(""), Null(""), Given(""), Given("r") } }

\* activity A(k) -> r under every shape of the variables key
VariablesShapes ==
    { RawDocument(vs, << RawActivityNode(Given("A"), Given(<< <<"k">> >>), Given("r")) >>) :
        vs \in { Absent(EmptyDict), Null(EmptyDict), Given(EmptyDict), Given(OneVariable) } }

\* Parallel[X -> x, Sequence[Y -> y, Z(y)]]
RawParallelOfSequence ==
    RawDocument(Given(OneVariable),
        << RawParallelNode(<<2, 3>>),
           RawActivityNode(Given("X"), Absent(<<>>), Given("x")),
           RawSequenceNode(<<4, 5>>),
           RawActivityNode(Given("Y"), Null(<<>>), Given("y")),
           RawActivityNode(Given("Z"), Given(<< <<"y">> >>), Absent("")) >>)

\* Parallel[F, Sequence[G, {comment}]]: the malformed node comes last
RawMalformedLast ==
    RawDocument(Given(OneVariable),
        << RawParallelNode(<<2, 3>>),
           RawActivityNode(Given("F"), Absent(<<>>), Absent("")),
           RawSequenceNode(<<4, 5>>),
           RawActivityNode(Given("G"), Absent(<<>>), Absent("")),
           RawNode({"comment"}, NoActivity, <<>>, <<>>) >>)

Sources ==
    { MissingSource }
    \cup { Source(doc) :
            doc \in { KeyedRoot(K) : K \in SUBSET RawKeys }
                    \cup { KeyedElement(K) : K \in SUBSET RawKeys }
                    \cup ActivityRoots
                    \cup VariablesShapes
                    \cup { RawParallelOfSequence, RawMalformedLast } }

InitLoad ==
    /\ source \in Sources
    /\ load_error = ""
    /\ children = <<>>
    /\ NoCall
    /\ input = DSLInput(<<>>, EmptyDict)
    /\ variables = EmptyDict
    /\ pc = "load"
    /\ outcome = NoOutcome
    /\ status = <<>>
    /\ idx = <<>>
    /\ failure = <<>>
    /\ args = <<>>
    /\ attempts = <<>>
    /\ future = <<>>
    /\ gather = <<>>
    /\ ready = {}
    /\ trace = <<>>
    /\ resolved_arg = <<>>
    /\ resolved_value = NoneV

\* trigger_load_processing_pipeline_yaml: load_workflow_definition(yaml_path),
\* and client.execute_workflow(DSLWorkflow.run, workflow_input) when it returned;
\* an exception of the load is answered with an HTTP error and nothing starts
LoadDefinition ==
    /\ pc = "load"
    /\ LET loaded == load_workflow_definition(source)
           nodes == DOMAIN loaded.input.nodes
       IN  /\ load_error' = loaded.error
           /\ pc' = IF loaded.error # "" THEN "load_failed" ELSE "init"
           /\ input' = loaded.input
           /\ status' = [n \in nodes |-> "pending"]
           /\ idx' = [n \in nodes |-> 0]
           /\ failure' = [n \in nodes |-> 0]
           /\ args' = [n \in nodes |-> <<>>]
           /\ attempts' = [n \in nodes |-> 0]
           /\ future' = [n \in nodes |-> PendingFuture]
           /\ gather' = [n \in nodes |-> PendingGather]
    /\ UNCHANGED <<source, variables, outcome, ready, trace, resolved_arg, resolved_value,
                   children, request, response, schedules>>

NextLoad ==
    \/ LoadDefinition
    \/ Next

SpecLoad == InitLoad /\ [][NextLoad]_vars

-----------------------------------------------------------------------------
(* Composition: the start_child_workflow activity starts another DSL run *)

IsChildStarter(n) == IsActivity(n) /\ Node(n).name = "start_child_workflow"

\* the child definition: Sequence[C(k) -> k, D(k, run_id) -> d], k = 1
RawChild ==
    RawDocument(Given(OneVariable),
        << RawSequenceNode(<<2, 3>>),
           RawActivityNode(Given("C"), Given(<< <<"k">> >>), Given("k")),
           RawActivityNode(Given("D"), Given(<< <<"k">>, <<"run_id">> >>), Given("d")) >>)

\* get_default_workflow_path(yaml_workflow_name) and the file found there
ChildSource(name) ==
    IF name = StrV(<<"child">>) THEN Source(RawChild) ELSE MissingSource

\* Parallel[start_child_workflow(child) -> out, A -> k], k = 0
ChildBesideActivity ==
    DSLInput(<< ParallelStatement(<<2, 3>>),
                ActivityStatement("start_child_workflow", << <<"child">> >>, Result("out")),
                ActivityStatement("A", <<>>, Result("k")) >>,
             [x \in {"k"} |-> IntV(0)])

\* Sequence[A -> k, start_child_workflow(child) -> out, B(out, k)]
ChildInSequence ==
    DSLInput(<< SequenceStatement(<<2, 3, 4>>),
                ActivityStatement("A", <<>>, Result("k")),
                ActivityStatement("start_child_workflow", << <<"child">> >>, Result("out")),
                ActivityStatement("B", << <<"out">>, <<"k">> >>, NoResult) >>,
             EmptyDict)

\* start_child_workflow(missing) -> out: there is no such definition file
ChildMissing ==
    DSLInput(<< ActivityStatement("start_child_workflow", << <<"missing">> >>, Result("out")) >>,
             EmptyDict)

ParentDefinitions == { ChildBesideActivity, ChildInSequence, ChildMissing }

\* what the operations of a child run may return
ChildResultValues == { IntV(20 + i) : i \in 1..NumResults }

\* f"{yaml_workflow_name}-{uuid4()}": a new identity for every child run
Digit == << "1", "2", "3" >>
ChildInfo(i) ==
    [workflow_id |-> StrV(<<"child-", Digit[i]>>),
     run_id |-> StrV(<<"child-run-", Digit[i]>>),
     workflow_type |-> StrV(<<"DSLWorkflow">>),
     attempt |-> IntV(1)]

\* run, lines 86-95, of a run whose workflow.info() is info
SeedVariablesOf(vs, info) ==
    DictSet(DictSet(DictSet(DictSet(vs,
        "workflow_id", info.workflow_id),
        "run_id", info.run_id),
        "workflow_type", info.workflow_type),
        "attempt", info.attempt)

\* (mutation) the parent's store handed to the child as overrides of the
\* variables of its definition
ChildStoreInherited(store, definition, info) ==
    SeedVariablesOf([x \in DOMAIN store \cup DOMAIN definition.variables |->
                        IF x \in DOMAIN store THEN store[x]
                        ELSE definition.variables[x]], info)

\* the store of a child run when its root starts: client.execute_workflow
\* hands the run its own DSLInput and nothing of the parent's store
ChildStore(store, definition, info) ==
    SeedVariablesOf(definition.variables, info)

\* the elements a child run executes in order (its root is an Activity or a
\* Sequence of Activities)
ChildElements(definition) ==
    IF definition.nodes[1].kind = "activity" THEN <<1>> ELSE definition.nodes[1].children

\* run of the child after its last element: the status is added and the
\* store returned
ChildAdvance(r) ==
    IF r.at > Len(ChildElements(r.input))
    THEN [r EXCEPT !.pc = "returned",
                   !.variables = DictSet(@, "workflow_status", StrV(<<"completed">>))]
    ELSE r

ChildRun(n, attempt, definition, store, info) ==
    ChildAdvance([node |-> n, attempt |-> attempt, info |-> info, input |-> definition,
                  variables |-> ChildStore(store, definition, info),
                  pc |-> "executing", at |-> 1])

\* the child run started by the current attempt of Activity n, if any
ChildrenOf(n) == { c \in DOMAIN children : children[c].node = n }
CurrentChild(n) == { c \in ChildrenOf(n) : children[c].attempt = attempts[n] }

ChildLoad(n) == load_workflow_definition(ChildSource(args[n][1]))

\* the dict the activity returns when the child run has completed
ChildResult(r) ==
    DictV([x \in {"child_workflow_id", "child_result", "status"} |->
              IF x = "child_workflow_id" THEN r.info.workflow_id
              ELSE IF x = "child_result" THEN DictV(r.variables)
              ELSE StrV(<<"completed">>)])

\* a step of a child run or of the activity leaves the parent run as it is
UnchangedParent ==
    UNCHANGED <<input, variables, pc, outcome, status, idx, failure, args, attempts,
                future, gather, ready, trace, resolved_arg, resolved_value,
                source, load_error, request, response, schedules>>

\* an attempt of start_child_workflow loads the definition and starts a run
\* of it under a new workflow id
ChildRunStarted(n) ==
    /\ pc = "executing"
    /\ InFlight(n) /\ IsChildStarter(n)
    /\ CurrentChild(n) = {}
    /\ ChildLoad(n).error = ""
    /\ Len(children) < Len(Digit)
    /\ children' = Append(children,
                       ChildRun(n, attempts[n], ChildLoad(n).input, variables,
                                ChildInfo(Len(children) + 1)))
    /\ UnchangedParent

\* the current Activity of child run c succeeds with v: the child stores the
\* result in its own store and goes on
ChildOperationSucceeds(c, v) ==
    /\ c \in DOMAIN children
    /\ children[c].pc = "executing"
    /\ LET r == children[c]
           stmt == r.input.nodes[ChildElements(r.input)[r.at]]
       IN  children' = [children EXCEPT ![c] =
               ChildAdvance([r EXCEPT !.variables = StoreResult(@, stmt.result, v),
                                      !.at = @ + 1])]
    /\ UnchangedParent

\* the current Activity of child run c fails after its attempts: the child
\* run fails
ChildOperationFails(c) ==
    /\ c \in DOMAIN children
    /\ children[c].pc = "executing"
    /\ children' = [children EXCEPT ![c].pc = "failed"]
    /\ UnchangedParent

\* the attempt fails: the definition file is missing, or client.execute_workflow
\* raised the failure of the child run and the activity re-raised it
ChildAttemptFailed(n) ==
    \/ ChildLoad(n).error # ""
    \/ \E c \in CurrentChild(n) : children[c].pc = "failed"

\* the child run completed: the attempt returns its result
ChildRunReturned(n) ==
    /\ IsChildStarter(n)
    /\ \E c \in CurrentChild(n) :
          /\ children[c].pc = "returned"
          /\ AttemptSucceeds(n, ChildResult(children[c]))

\* the failed attempt is retried under RetryPolicy(maximum_attempts=3), like
\* that of any other Activity
ChildAttemptRetried(n) ==
    /\ IsChildStarter(n) /\ InFlight(n)
    /\ ChildAttemptFailed(n)
    /\ AttemptRetried(n)

ChildAttemptsExhausted(n) ==
    /\ IsChildStarter(n) /\ InFlight(n)
    /\ ChildAttemptFailed(n)
    /\ AttemptsExhausted(n)

InitChild ==
    /\ input \in ParentDefinitions
    /\ variables = EmptyDict
    /\ pc = "init"
    /\ outcome = NoOutcome
    /\ status = [n \in DOMAIN input.nodes |-> "pending"]
    /\ idx = [n \in DOMAIN input.nodes |-> 0]
    /\ failure = [n \in DOMAIN input.nodes |-> 0]
    /\ args = [n \in DOMAIN input.nodes |-> <<>>]
    /\ attempts = [n \in DOMAIN input.nodes |-> 0]
    /\ future = [n \in DOMAIN input.nodes |-> PendingFuture]
    /\ gather = [n \in DOMAIN input.nodes |-> PendingGather]
    /\ ready = {}
    /\ trace = <<>>
    /\ resolved_arg = <<>>
    /\ resolved_value = NoneV
    /\ source = NoSource
    /\ load_error = ""
    /\ children = <<>>
    /\ NoCall

NextChild ==
    \/ StartRun
    \/ \E n \in Nodes, v \in ResultValues : ~IsChildStarter(n) /\ AttemptSucceeds(n, v)
    \/ \E n \in Nodes : ~IsChildStarter(n) /\ AttemptRetried(n)
    \/ \E n \in Nodes : ~IsChildStarter(n) /\ AttemptsExhausted(n)
    \/ \E n \in Nodes : ChildRunStarted(n)
    \/ \E c \in DOMAIN children, v \in ChildResultValues : ChildOperationSucceeds(c, v)
    \/ \E c \in DOMAIN children : ChildOperationFails(c)
    \/ \E n \in Nodes : ChildRunReturned(n)
    \/ \E n \in Nodes : ChildAttemptRetried(n)
    \/ \E n \in Nodes : ChildAttemptsExhausted(n)
    \/ \E h \in ready : LoopTaskStep(h)
    \/ \E h \in ready : LoopActivityResume(h)
    \/ \E h \in ready : LoopGatherDone(h)
    \/ \E h \in ready : LoopParallelResume(h)

SpecChild == InitChild /\ [][NextChild]_vars

------------------------------------------------------------------------------
(* The run-trigger endpoints of the controller: /load-processing-pipeline-yaml
   and /execute-workflow *)

ListV(s) == [t |-> "list", v |-> s]

\* the fields of ExecuteWorkflowRequest
RequestParameters ==
    { "shipper_id", "agent_id", "date_range_days", "email_subject", "template_key",
      "scac_filter", "mode", "batching_mode", "contact_levels" }

\* a request that leaves every field to its default
DefaultParameters ==
    [k \in RequestParameters |->
        CASE k = "shipper_id" -> StrV(<<"test-qa-demo-shipper">>)
          [] k = "agent_id" -> StrV(<<"TRACY">>)
          [] k = "date_range_days" -> IntV(30)
          [] k = "email_subject" -> StrV(<<"FourKites Alert : Late Load Follow Up">>)
          [] k = "template_key" -> StrV(<<"test-wrapped-action-3">>)
          [] k = "scac_filter" -> ListV(<<>>)
          [] k = "mode" -> ListV(<<"TL">>)
          [] k = "batching_mode" -> StrV(<<"single">>)
          [] k = "contact_levels" -> ListV(<<"is_level_1">>)]

\* a request that gives every field
CustomParameters ==
    [k \in RequestParameters |->
        CASE k = "shipper_id" -> StrV(<<"acme">>)
          [] k = "agent_id" -> StrV(<<"SAM">>)
          [] k = "date_range_days" -> IntV(7)
          [] k = "email_subject" -> StrV(<<"Late">>)
          [] k = "template_key" -> StrV(<<"t1">>)
          [] k = "scac_filter" -> ListV(<<"ABCD">>)
          [] k = "mode" -> ListV(<<"LTL", "TL">>)
          [] k = "batching_mode" -> StrV(<<"batch">>)
          [] k = "contact_levels" -> ListV(<<"is_level_2">>)]

Requests ==
    { [endpoint |-> "load-processing-pipeline-yaml", parameters |-> EmptyDict],
      [endpoint |-> "execute-workflow", parameters |-> DefaultParameters],
      [endpoint |-> "execute-workflow", parameters |-> CustomParameters] }

\* the variables of a definition: two of the request's names, a metadata name
\* and a name of its own
PipelineVariables ==
    [k \in { "shipper_id", "date_range_days", "run_id", "k" } |->
        CASE k = "shipper_id" -> StrV(<<"yaml-shipper">>)
          [] k = "date_range_days" -> IntV(1)
          [] k = "run_id" -> StrV(<<"mine">>)
          [] k = "k" -> IntV(1)]

\* Sequence[load_search(shipper_id, agent_id, k) -> loads,
\*          Parallel[send_email(loads) -> sent, sleep_activity -> parameters]]
RawPipeline ==
    RawDocument(Given(PipelineVariables),
        << RawSequenceNode(<<2, 3>>),
           RawActivityNode(Given("load_search"),
                           Given(<< <<"shipper_id">>, <<"agent_id">>, <<"k">> >>),
                           Given("loads")),
           RawParallelNode(<<4, 5>>),
           RawActivityNode(Given("send_email"), Given(<< <<"loads">> >>), Given("sent")),
           RawActivityNode(Given("sleep_activity"), Absent(<<>>), Given("parameters")) >>)

\* load_search -> workflow_id: a result stored under a name the response has
RawResultNamedWorkflowId ==
    RawDocument(Absent(EmptyDict),
        << RawActivityNode(Given("load_search"), Absent(<<>>), Given("workflow_id")) >>)

\* a definition whose variables key is null
RawNullVariables ==
    RawDocument(Null(EmptyDict),
        << RawActivityNode(Given("load_search"), Absent(<<>>), Given("loads")) >>)

EndpointSources ==
    { MissingSource, Source(RawPipeline), Source(RawResultNamedWorkflowId),
      Source(RawNullVariables) }

\* (mutation) the definition's value kept when it has one (setdefault)
ApplyOverridesIfAbsent(vs, overrides) ==
    [k \in DOMAIN vs \cup DOMAIN overrides |->
        IF k \in DOMAIN vs THEN vs[k] ELSE overrides[k]]

\* workflow_input.variables.update({...})
ApplyOverrides(vs, overrides) ==
    [k \in DOMAIN vs \cup DOMAIN overrides |->
        IF k \in DOMAIN overrides THEN overrides[k] ELSE vs[k]]

\* the endpoint up to client.execute_workflow: the definition is loaded and,
\* in /execute-workflow, its variables are updated with the request's
\* parameters. FileNotFoundError is answered 404, any other exception 500
\* (update on variables = None raises AttributeError).
EndpointLoads ==
    /\ pc = "load"
    /\ LET loaded == load_workflow_definition(source)
           overriding == request.endpoint = "execute-workflow"
           raised == IF loaded.error # "" THEN loaded.error
                     ELSE IF overriding /\ loaded.input.variables = NoneV
                          THEN "AttributeError"
                          ELSE ""
           definition == IF overriding /\ raised = ""
                         THEN [loaded.input EXCEPT
                                  !.variables = ApplyOverrides(@, request.parameters)]
                         ELSE loaded.input
           nodes == DOMAIN definition.nodes
       IN  /\ load_error' = raised
           /\ pc' = IF raised # "" THEN "load_failed" ELSE "init"
           /\ response' = IF raised = "" THEN NoResponse
                          ELSE [status |-> IF raised = "FileNotFoundError" THEN 404 ELSE 500,
                                body |-> EmptyDict]
           /\ input' = definition
           /\ status' = [n \in nodes |-> "pending"]
           /\ idx' = [n \in nodes |-> 0]
           /\ failure' = [n \in nodes |-> 0]
           /\ args' = [n \in nodes |-> <<>>]
           /\ attempts' = [n \in nodes |-> 0]
           /\ future' = [n \in nodes |-> PendingFuture]
           /\ gather' = [n \in nodes |-> PendingGather]
    /\ UNCHANGED <<source, variables, outcome, ready, trace, resolved_arg, resolved_value,
                   children, request, schedules>>

\* the fields the endpoint writes before **result; workflow_id is the id the
\* run was started under
OwnFields ==
    IF request.endpoint = "execute-workflow"
    THEN [k \in { "workflow_id", "workflow_name", "cascade", "parameters" } |->
            CASE k = "workflow_id" -> Info.workflow_id
              [] k = "workflow_name" -> StrV(<<"Custom Parameterized Workflow (Full Cascade)">>)
              [] k = "cascade" -> StrV(<<"Workflow 1 -> Workflow 2 -> Workflow 3">>)
              [] k = "parameters" -> DictV(request.parameters)]
    ELSE [k \in { "workflow_id", "workflow_type", "yaml_definition" } |->
            CASE k = "workflow_id" -> Info.workflow_id
              [] k = "workflow_type" -> StrV(<<"YAML-based DSL">>)
              [] k = "yaml_definition" -> StrV(<<"load_processing_workflow.yaml">>)]

\* {own fields, **result}: a key of result replaces the field of that name
ResponseBody(own, result) ==
    [k \in DOMAIN own \cup DOMAIN result |->
        IF k \in DOMAIN result THEN result[k] ELSE own[k]]

\* client.execute_workflow returned the run's result: the endpoint answers
EndpointReturns ==
    /\ pc = "returned" /\ response = NoResponse
    /\ request # NoRequest
    /\ response' = [status |-> 200, body |-> ResponseBody(OwnFields, outcome.snapshot.v)]
    /\ UNCHANGED <<input, variables, pc, outcome, status, idx, failure, args, attempts,
                   future, gather, ready, trace, resolved_arg, resolved_value,
                   source, load_error, children, request, schedules>>

\* client.execute_workflow raised the run's failure: except Exception, 500
EndpointRaises ==
    /\ pc = "failed" /\ response = NoResponse
    /\ request # NoRequest
    /\ response' = [status |-> 500, body |-> EmptyDict]
    /\ UNCHANGED <<input, variables, pc, outcome, status, idx, failure, args, attempts,
                   future, gather, ready, trace, resolved_arg, resolved_value,
                   source, load_error, children, request, schedules>>

InitEndpoint ==
    /\ source \in EndpointSources
    /\ request \in Requests
    /\ response = NoResponse
    /\ schedules = NoSchedules
    /\ load_error = ""
    /\ children = <<>>
    /\ input = DSLInput(<<>>, EmptyDict)
    /\ variables = EmptyDict
    /\ pc = "load"
    /\ outcome = NoOutcome
    /\ status = <<>>
    /\ idx = <<>>
    /\ failure = <<>>
    /\ args = <<>>
    /\ attempts = <<>>
    /\ future = <<>>
    /\ gather = <<>>
    /\ ready = {}
    /\ trace = <<>>
    /\ resolved_arg = <<>>
    /\ resolved_value = NoneV

NextEndpoint ==
    \/ EndpointLoads
    \/ Next
    \/ EndpointReturns
    \/ EndpointRaises

SpecEndpoint == InitEndpoint /\ [][NextEndpoint]_vars

------------------------------------------------------------------------------
(* The schedule endpoints of the controller. A request arrives (pc = "serving")
   and the handler makes its one call on the Temporal client and answers
   (pc = "idle"); the server starts a run of an unpaused schedule when its
   interval has elapsed. *)

\* runs a schedule starts before the model stops counting them
MaxRuns == 2

\* SCHEDULE_ID, WORKFLOW_1_SCHEDULE_ID
ScheduleIds == { "load-processing-pipeline-schedule", "workflow-1-schedule" }

ScheduleOperations == { "start", "pause", "resume", "delete", "describe", "trigger" }

\* ScheduleIntervalSpec(every=timedelta(minutes=...)) of the two start endpoints
IntervalMinutes(id) == IF id = "workflow-1-schedule" THEN 10 ELSE 5

\* the schedule create_schedule stores: ScheduleState() is not paused
NewSchedule(id) == [paused |-> FALSE, interval |-> IntervalMinutes(id), runs |-> 0]

ScheduleRequest(op, id) ==
    [endpoint |-> op, parameters |-> [k \in {"schedule_id"} |-> StrV(<<id>>)]]

RequestedId == request.parameters["schedule_id"].v[1]

\* str(e) of what create_schedule raises when the id is taken, word by word:
\* the client's ScheduleAlreadyRunningError, or a server message passed on
AlreadyExistsMessages ==
    { << "Schedule", "already", "running" >>,
      << "schedule", "already", "exists" >> }

\* str(e) of what a call on the handle of a missing schedule raises
NotFoundMessages ==
    { << "schedule", "not", "found" >>,
      << "workflow", "not", "found", "for", "ID" >> }

\* str.lower(), on the words that occur
LowerWord(w) ==
    CASE w = "Schedule" -> "schedule"
      [] w = "ID" -> "id"
      [] OTHER -> w

Lower(msg) == [i \in 1..Len(msg) |-> LowerWord(msg[i])]

\* sub in msg
Contains(msg, sub) ==
    \E i \in 1..(Len(msg) - Len(sub) + 1) : SubSeq(msg, i, i + Len(sub) - 1) = sub

\* the except branch of the start endpoints
StartErrorStatus(msg) ==
    IF Contains(Lower(msg), << "already", "exists" >>) THEN 409 ELSE 500

\* (mutation) the test made on str(e) without lower(), for "Not Found"
HandleErrorStatusCaseSensitive(msg) ==
    IF Contains(msg, << "Not", "Found" >>) THEN 404 ELSE 500

\* the except branch of the pause, resume, delete, describe and trigger endpoints
HandleErrorStatus(msg) ==
    IF Contains(Lower(msg), << "not", "found" >>) THEN 404 ELSE 500

ErrorResponse(code) == [status |-> code, body |-> EmptyDict]

\* the dict a schedule endpoint returns
ScheduleBody(id, word) ==
    [k \in { "schedule_id", "status" } |->
        IF k = "schedule_id" THEN StrV(<<id>>) ELSE StrV(<<word>>)]

\* the dict the describe endpoints return (the fields the model keeps)
DescribeBody(id, s) ==
    [k \in { "schedule_id", "paused", "interval_minutes", "num_actions" } |->
        CASE k = "schedule_id" -> StrV(<<id>>)
          [] k = "paused" -> BoolV(s.paused)
          [] k = "interval_minutes" -> IntV(IntervalMinutes(id))
          [] k = "num_actions" -> IntV(s.runs)]

UnchangedRun ==
    UNCHANGED <<input, variables, outcome, status, idx, failure, args, attempts,
                future, gather, ready, trace, resolved_arg, resolved_value,
                source, load_error, children>>

\* a request for operation op on the schedule of pipeline id arrives
ScheduleCall(op, id) ==
    /\ pc = "idle"
    /\ request' = ScheduleRequest(op, id)
    /\ pc' = "serving"
    /\ UNCHANGED <<response, schedules>>
    /\ UnchangedRun

Answer(r, s) ==
    /\ response' = r
    /\ schedules' = s
    /\ pc' = "idle"
    /\ UNCHANGED request
    /\ UnchangedRun

\* start_workflow_1_schedule, start_load_processing_schedule
ServeStart(msg) ==
    /\ pc = "serving" /\ request.endpoint = "start"
    /\ LET id == RequestedId
       IN  IF id \in DOMAIN schedules
           THEN Answer(ErrorResponse(StartErrorStatus(msg)), schedules)
           ELSE Answer([status |-> 200, body |-> ScheduleBody(id, "started")],
                       [k \in DOMAIN schedules \cup {id} |->
                           IF k = id THEN NewSchedule(id) ELSE schedules[k]])

\* pause_*, resume_*: handle.pause(), handle.unpause()
ServePause(msg) ==
    /\ pc = "serving" /\ request.endpoint \in { "pause", "resume" }
    /\ LET id == RequestedId
           pausing == request.endpoint = "pause"
       IN  IF id \in DOMAIN schedules
           THEN Answer([status |-> 200,
                        body |-> ScheduleBody(id, IF pausing THEN "paused" ELSE "resumed")],
                       [schedules EXCEPT ![id].paused = pausing])
           ELSE Answer(ErrorResponse(HandleErrorStatus(msg)), schedules)

\* delete_*: handle.delete()
ServeDelete(msg) ==
    /\ pc = "serving" /\ request.endpoint = "delete"
    /\ LET id == RequestedId
       IN  IF id \in DOMAIN schedules
           THEN Answer([status |-> 200, body |-> ScheduleBody(id, "deleted")],
                       [k \in DOMAIN schedules \ {id} |-> schedules[k]])
           ELSE Answer(ErrorResponse(HandleErrorStatus(msg)), schedules)

\* get_*_schedule_status: handle.describe()
ServeDescribe(msg) ==
    /\ pc = "serving" /\ request.endpoint = "describe"
    /\ LET id == RequestedId
       IN  IF id \in DOMAIN schedules
           THEN Answer([status |-> 200, body |-> DescribeBody(id, schedules[id])], schedules)
           ELSE Answer(ErrorResponse(HandleErrorStatus(msg)), schedules)

\* trigger_*_manually: handle.trigger() starts one run now, paused or not
ServeTrigger(msg) ==
    /\ pc = "serving" /\ request.endpoint = "trigger"
    /\ LET id == RequestedId
       IN  IF id \in DOMAIN schedules
           THEN Answer([status |-> 200, body |-> ScheduleBody(id, "triggered")],
                       [schedules EXCEPT ![id].runs = IF @ < MaxRuns THEN @ + 1 ELSE @])
           ELSE Answer(ErrorResponse(HandleErrorStatus(msg)), schedules)

\* the interval of an unpaused schedule elapses: the server starts a run
ScheduleFires(id) ==
    /\ pc = "idle"
    /\ id \in DOMAIN schedules
    /\ ~schedules[id].paused
    /\ schedules[id].runs < MaxRuns
    /\ schedules' = [schedules EXCEPT ![id].runs = @ + 1]
    /\ UNCHANGED <<pc, request, response>>
    /\ UnchangedRun

InitSchedule ==
    /\ pc = "idle"
    /\ request = NoRequest
    /\ response = NoResponse
    /\ schedules = NoSchedules
    /\ input = DSLInput(<<>>, EmptyDict)
    /\ variables = EmptyDict
    /\ outcome = NoOutcome
    /\ status = <<>>
    /\ idx = <<>>
    /\ failure = <<>>
    /\ args = <<>>
    /\ attempts = <<>>
    /\ future = <<>>
    /\ gather = <<>>
    /\ ready = {}
    /\ trace = <<>>
    /\ resolved_arg = <<>>
    /\ resolved_value = NoneV
    /\ source = NoSource
    /\ load_error = ""
    /\ children = <<>>

NextSchedule ==
    \/ \E op \in ScheduleOperations, id \in ScheduleIds : ScheduleCall(op, id)
    \/ \E msg \in AlreadyExistsMessages : ServeStart(msg)
    \/ \E msg \in NotFoundMessages : ServePause(msg)
    \/ \E msg \in NotFoundMessages : ServeDelete(msg)
    \/ \E msg \in NotFoundMessages : ServeDescribe(msg)
    \/ \E msg \in NotFoundMessages : ServeTrigger(msg)
    \/ \E id \in ScheduleIds : ScheduleFires(id)

SpecSchedule == InitSchedule /\ [][NextSchedule]_vars

------------------------------------------------------------------------------
(* LoadProcessingWorkflow, the code-based pipeline. idx[1] is the step run is
   at, attempts[1] the attempts of its activity, variables the results it has
   assigned, trace what it logged. *)

\* attempts after the first the model follows (the default retry policy of
\* workflow.execute_activity sets no maximum)
MaxRetries == 2

Step(kind, name, result) == [kind |-> kind, name |-> name, result |-> result]

\* (mutation) the email sent before the search
PipelineStepsEmailFirst ==
    << Step("activity", "send_email", "email_status"),
       Step("activity", "load_search", "search_results"),
       Step("sleep", "sleep", ""),
       Step("activity", "process_email", "classification"),
       Step("activity", "extract_data", "extracted_data"),
       Step("activity", "update_load", "update_status") >>

\* the awaits of run, in program order, with the local each result is bound to
PipelineSteps ==
    << Step("activity", "load_search", "search_results"),
       Step("activity", "send_email", "email_status"),
       Step("sleep", "sleep", ""),
       Step("activity", "process_email", "classification"),
       Step("activity", "extract_data", "extracted_data"),
       Step("activity", "update_load", "update_status") >>

\* asyncio.sleep(20)
SleepSeconds == 20

\* the dict run returns
PipelineResult(results) ==
    [k \in DOMAIN results \cup DOMAIN Info \cup {"workflow_status"} |->
        IF k = "workflow_status" THEN StrV(<<"completed">>)
        ELSE IF k = "workflow_type" THEN StrV(<<"LoadProcessingWorkflow">>)
        ELSE IF k \in DOMAIN Info THEN Info[k]
        ELSE results[k]]

UnchangedDsl ==
    UNCHANGED <<input, status, failure, args, future, gather, ready,
                resolved_arg, resolved_value, source, load_error, children,
                request, response, schedules>>

\* run reaches the await of step i: the activity is handed to the substrate,
\* the timer is started, or, after the last step, run returns
PipelineReach(i, results, log) ==
    IF i > Len(PipelineSteps)
    THEN /\ pc' = "returned"
         /\ outcome' = [kind |-> "success", snapshot |-> DictV(PipelineResult(results)),
                        failure |-> 0]
         /\ trace' = log
         /\ idx' = <<i>>
         /\ attempts' = <<0>>
         /\ variables' = results
    ELSE /\ pc' = "executing"
         /\ outcome' = outcome
         /\ trace' = Append(log, IF PipelineSteps[i].kind = "sleep"
                                  THEN Event("sleep", i, <<SleepSeconds>>)
                                  ELSE Event("invoke", i, <<>>))
         /\ idx' = <<i>>
         /\ attempts' = <<IF PipelineSteps[i].kind = "sleep" THEN 0 ELSE 1>>
         /\ variables' = results

PipelineStart ==
    /\ pc = "init"
    /\ PipelineReach(1, variables, trace)
    /\ UnchangedDsl

AtActivity == pc = "executing" /\ PipelineSteps[idx[1]].kind = "activity"

\* the activity of the current step returns v: the result is bound and run
\* goes on to the next await
PipelineStepSucceeds(v) ==
    /\ AtActivity
    /\ PipelineReach(idx[1] + 1,
                     DictSet(variables, PipelineSteps[idx[1]].result, v),
                     Append(trace, Event("complete", idx[1], <<v>>)))
    /\ UnchangedDsl

\* the timer of asyncio.sleep fires
PipelineTimerFires ==
    /\ pc = "executing" /\ PipelineSteps[idx[1]].kind = "sleep"
    /\ PipelineReach(idx[1] + 1, variables, Append(trace, Event("wake", idx[1], <<>>)))
    /\ UnchangedDsl

\* an attempt fails and the substrate makes another one
PipelineAttemptRetried ==
    /\ AtActivity
    /\ attempts[1] <= MaxRetries
    /\ attempts' = <<attempts[1] + 1>>
    /\ UNCHANGED <<pc, outcome, trace, idx, variables>>
    /\ UnchangedDsl

\* the activity fails for good (an error that is not retried): the await
\* raises and run ends with it
PipelineStepFails ==
    /\ AtActivity
    /\ pc' = "failed"
    /\ outcome' = [kind |-> "failure", snapshot |-> NoneV, failure |-> idx[1]]
    /\ UNCHANGED <<trace, idx, attempts, variables>>
    /\ UnchangedDsl

InitPipeline ==
    /\ pc = "init"
    /\ idx = <<0>>
    /\ attempts = <<0>>
    /\ variables = EmptyDict
    /\ trace = <<>>
    /\ outcome = NoOutcome
    /\ input = DSLInput(<<>>, EmptyDict)
    /\ status = <<>>
    /\ failure = <<>>
    /\ args = <<>>
    /\ future = <<>>
    /\ gather = <<>>
    /\ ready = {}
    /\ resolved_arg = <<>>
    /\ resolved_value = NoneV
    /\ source = NoSource
    /\ load_error = ""
    /\ children = <<>>
    /\ NoCall

NextPipeline ==
    \/ PipelineStart
    \/ \E v \in ResultValues : PipelineStepSucceeds(v)
    \/ PipelineTimerFires
    \/ PipelineAttemptRetried
    \/ PipelineStepFails

SpecPipeline == InitPipeline /\ [][NextPipeline]_vars

------------------------------------------------------------------------------
(* The worker: the activities it registers on the task queue of DSLWorkflow *)

\* worker.py, activities=[...]: the names the registered functions are defined
\* under (@activity.defn(name=...))
RegisteredActivities ==
    { "send_email", "load_search", "process_email", "extract_data",
      "get_escalation_milestones", "update_load", "send_escalation_email",
      "sleep_activity" }

\* the worker has a function for the activity type of statement n
Served(n) == IsActivity(n) /\ Node(n).name \in RegisteredActivities

\* Sequence[load_search -> loads, send_email(loads) -> sent,
\*          start_child_workflow(child) -> out]
LoadThenChild ==
    DSLInput(<< SequenceStatement(<<2, 3, 4>>),
                ActivityStatement("load_search", <<>>, Result("loads")),
                ActivityStatement("send_email", << <<"loads">> >>, Result("sent")),
                ActivityStatement("start_child_workflow", << <<"child">> >>, Result("out")) >>,
             EmptyDict)

\* Parallel[start_child_workflow(child) -> out, sleep_activity -> k]
ChildBesideSleep ==
    DSLInput(<< ParallelStatement(<<2, 3>>),
                ActivityStatement("start_child_workflow", << <<"child">> >>, Result("out")),
                ActivityStatement("sleep_activity", <<>>, Result("k")) >>,
             EmptyDict)

WorkerDefinitions == { LoadThenChild, ChildBesideSleep }

\* the worker runs the registered function, which returns v
ServedSucceeds(n, v) == Served(n) /\ AttemptSucceeds(n, v)

\* the registered function raises: the attempt fails
ServedRetried(n) == Served(n) /\ AttemptRetried(n)
ServedExhausted(n) == Served(n) /\ AttemptsExhausted(n)

\* the worker polls the task of an activity type it has no function for: the
\* attempt fails (not registered on this worker), under the same retry policy
UnservedRetried(n) == ~Served(n) /\ AttemptRetried(n)
UnservedExhausted(n) == ~Served(n) /\ AttemptsExhausted(n)

InitWorker == input \in WorkerDefinitions /\ InitRun

NextWorker ==
    \/ StartRun
    \/ \E n \in Nodes, v \in ResultValues : ServedSucceeds(n, v)
    \/ \E n \in Nodes : ServedRetried(n)
    \/ \E n \in Nodes : ServedExhausted(n)
    \/ \E n \in Nodes : UnservedRetried(n)
    \/ \E n \in Nodes : UnservedExhausted(n)
    \/ \E h \in ready : LoopTaskStep(h)
    \/ \E h \in ready : LoopActivityResume(h)
    \/ \E h \in ready : LoopGatherDone(h)
    \/ \E h \in ready : LoopParallelResume(h)

SpecWorker == InitWorker /\ [][NextWorker]_vars

-----------------------------------------------------------------------------
(* resolve_argument on its own: any reference against any store *)

Leaves == { NoneV, IntV(0), IntV(42), BoolV(FALSE), StrV(<<>>) }
Keys == { "a", "b" }
Names == Keys \cup { "missing" }

RECURSIVE ValuesOfDepth(_)
ValuesOfDepth(d) ==
    IF d = 0 THEN Leaves \cup { DictV(EmptyDict) }
    ELSE ValuesOfDepth(d - 1)
         \cup { DictV([x \in {k} |-> w]) : k \in Keys, w \in ValuesOfDepth(d - 1) }

\* stores: "a" bound to any value (or absent), "b" bound to a leaf (or absent)
Stores ==
    { [k \in ka \cup kb |-> IF k = "a" THEN va ELSE vb] :
        ka \in { {}, {"a"} }, kb \in { {}, {"b"} },
        va \in ValuesOfDepth(MaxDepth), vb \in Leaves }

\* a reference string: no two dot-free pieces are adjacent
WellFormed(ref) ==
    \A i \in 1..(Len(ref) - 1) : ref[i] = "." \/ ref[i + 1] = "."

References ==
    { ref \in UNION { [1..n -> Names \cup {"."}] : n \in 0..MaxRefLen } : WellFormed(ref) }

InitResolve ==
    /\ input = DSLInput(<<>>, EmptyDict)
    /\ variables \in Stores
    /\ pc = "resolve"
    /\ outcome = NoOutcome
    /\ status = <<>>
    /\ idx = <<>>
    /\ failure = <<>>
    /\ args = <<>>
    /\ attempts = <<>>
    /\ future = <<>>
    /\ gather = <<>>
    /\ ready = {}
    /\ trace = <<>>
    /\ resolved_arg = <<>>
    /\ resolved_value = NoneV
    /\ source = NoSource
    /\ load_error = ""
    /\ children = <<>>
    /\ NoCall

\* self.variables after resolve_argument(arg), had the lookup been
\* self.variables.setdefault(arg, arg)
resolve_argument_setdefault(store, arg) ==
    IF ~HasDot(arg) /\ Piece(arg) \notin DOMAIN store
    THEN DictSet(store, Piece(arg), StrV(arg))
    ELSE store

\* self.variables after resolve_argument(arg): the function only reads it
\* (.get on the store and on the nested mappings, value is a local)
resolve_argument_store(store, arg) == store

\* self.resolve_argument(arg)
ResolveCall(arg) ==
    /\ pc = "resolve"
    /\ resolved_arg' = arg
    /\ resolved_value' = resolve_argument(variables, arg)
    /\ variables' = resolve_argument_store(variables, arg)
    /\ pc' = "resolved"
    /\ UNCHANGED <<input, outcome, status, idx, failure, args,
                   attempts, future, gather, ready, trace, source, load_error,
                   children, request, response, schedules>>

NextResolve == \E arg \in References : ResolveCall(arg)

SpecResolve == InitResolve /\ [][NextResolve]_vars

-----------------------------------------------------------------------------
(* Properties *)

\* position of the log record (ev, n), 0 when there is none
Pos(ev, n) ==
    IF \E i \in 1..Len(trace) : trace[i].ev = ev /\ trace[i].node = n
    THEN CHOOSE i \in 1..Len(trace) : trace[i].ev = ev /\ trace[i].node = n
    ELSE 0

Max(S) == CHOOSE x \in S : \A y \in S : y <= x
Min(S) == CHOOSE x \in S : \A y \in S : x <= y

Elements(s) == 1..Len(Node(s).children)
Elem(s, i) == Node(s).children[i]

MetadataKeys == { "workflow_id", "run_id", "workflow_type", "attempt" }

\* the completions that wrote the store under name x, as log positions
Written(x) ==
    { i \in 1..Len(trace) :
        /\ trace[i].ev = "complete"
        /\ Truthy(Node(trace[i].node).result)
        /\ Node(trace[i].node).result.name = x }

ResultNames == { Node(n).result.name : n \in { a \in Nodes : IsActivity(a) /\ Truthy(Node(a).result) } }

FailedActivities == { n \in Nodes : IsActivity(n) /\ status[n] = "err" }

\* C1: in a Sequence, an Activity B that follows an Activity A storing its
\* result under r is invoked only after A has completed, and every argument r
\* of B is the value A returned: not the string r, not an older value of r.
C1_SequenceDataFlow ==
    \A s \in Nodes : IsSequence(s) =>
        \A i \in Elements(s) : i < Len(Node(s).children) =>
            LET A == Elem(s, i)
                B == Elem(s, i + 1)
            IN  (/\ IsActivity(A) /\ IsActivity(B)
                 /\ Truthy(Node(A).result)
                 /\ status[B] # "pending")
                => /\ 0 < Pos("invoke", A)
                   /\ Pos("invoke", A) < Pos("complete", A)
                   /\ Pos("complete", A) < Pos("invoke", B)
                   /\ Len(args[B]) = Len(Node(B).arguments)
                   /\ \A k \in 1..Len(Node(B).arguments) :
                        Node(B).arguments[k] = <<Node(A).result.name>>
                        => /\ args[B][k] = future[A].value
                           /\ trace[Pos("invoke", B)].val[k] = trace[Pos("complete", A)].val[1]

C1_Witness ==
    /\ input = SearchNotify
    /\ status[3] = "running"
    /\ future[2].value = IntV(7)
    /\ args[3] = <<IntV(7)>>

\* C2: in a Sequence, nothing of element i+1 starts until element i has
\* completed successfully, all operations of all its branches included.
C2_SequenceOrder ==
    \A s \in Nodes : IsSequence(s) =>
        \A i \in Elements(s) : i < Len(Node(s).children) =>
            LET c == Elem(s, i)
                d == Elem(s, i + 1)
            IN  (\E x \in Descendants(d) : status[x] # "pending")
                => /\ \A y \in Descendants(c) : status[y] = "ok"
                   /\ \A a \in Activities(c) :
                        /\ 0 < Pos("complete", a)
                        /\ \A k \in 1..Len(trace) :
                             trace[k].node \in Descendants(d) => Pos("complete", a) < k

C2_Witness ==
    /\ input = RaceThenUse
    /\ status[3] = "ok" /\ status[4] = "ok"
    /\ status[5] = "running"

\* C3: when an element of a Sequence fails (an Activity: after its last
\* allowed attempt), the Sequence fails with that same failure and no later
\* element is ever started.
C3_SequenceFailFast ==
    \A s \in Nodes : IsSequence(s) =>
        \A i \in Elements(s) :
            LET c == Elem(s, i)
            IN  status[c] = "err"
                => /\ status[s] = "err"
                   /\ failure[s] = failure[c]
                   /\ IsActivity(c) => (failure[c] = c /\ attempts[c] = MaxAttempts)
                   /\ \A j \in Elements(s) : j > i =>
                        \A d \in Descendants(Elem(s, j)) :
                            /\ status[d] = "pending"
                            /\ \A k \in 1..Len(trace) : trace[k].node # d

C3_Witness ==
    /\ input = SearchNotify
    /\ status[2] = "err" /\ attempts[2] = MaxAttempts
    /\ status[1] = "err" /\ failure[1] = 2
    /\ status[3] = "pending"
    /\ pc = "failed"

\* C4: a Parallel that has ended (in particular: reported a branch's failure)
\* has all its branches in a terminal state.
C4_ParallelWaitsForAll ==
    \A p \in Nodes : (IsParallel(p) /\ status[p] \in {"ok", "err"}) =>
        \A b \in Children(p) : status[b] \in {"ok", "err"}

\* C5: when more than one branch of a Parallel has failed, the failure the
\* Parallel reports is that of the failed branch with the lowest index.
C5_ParallelReportsLowestIndex ==
    \A p \in Nodes : (IsParallel(p) /\ status[p] = "err") =>
        LET failed == { i \in Elements(p) : status[Elem(p, i)] = "err" }
        IN  Cardinality(failed) > 1 => failure[p] = failure[Elem(p, Min(failed))]

\* C6: a Parallel completes only after every operation of every branch has
\* been invoked and has completed, and nothing of the element that follows it
\* in a Sequence starts before that join.
C6_ParallelJoin ==
    \A p \in Nodes : IsParallel(p) =>
        /\ status[p] = "ok" =>
            /\ 0 < Pos("joined", p)
            /\ \A x \in Descendants(p) : status[x] = "ok"
            /\ \A a \in Activities(p) :
                /\ 0 < Pos("invoke", a)
                /\ Pos("invoke", a) < Pos("complete", a)
                /\ Pos("complete", a) < Pos("joined", p)
        /\ \A s \in Nodes : IsSequence(s) =>
             \A i \in Elements(s) : (i < Len(Node(s).children) /\ Elem(s, i) = p) =>
                \A d \in Descendants(Elem(s, i + 1)) :
                    /\ status[d] # "pending" => status[p] = "ok"
                    /\ \A k \in 1..Len(trace) :
                         trace[k].node = d => (0 < Pos("joined", p) /\ Pos("joined", p) < k)

C6_Witness ==
    /\ input = RaceThenUse
    /\ status[2] = "ok"
    /\ Pos("complete", 4) < Pos("complete", 3)
    /\ Pos("joined", 2) < Pos("invoke", 5)

RECURSIVE Enclosing(_)
Enclosing(n) == IF n = Root THEN {} ELSE {Caller(n)} \cup Enclosing(Caller(n))

\* C7 as stated: a run that has ended after an Activity failed ended in
\* failure with that Activity's failure.
C7_RunFailsWithThatFailure ==
    \A n \in FailedActivities :
        pc \in {"returned", "failed"} => (outcome.kind = "failure" /\ outcome.failure = n)

\* C7 amended: no enclosing statement of a failed Activity completes, the run
\* never returns a snapshot, once nothing is scheduled any more the run has
\* ended in failure, and the failure it reports is that of an Activity that
\* failed (of that Activity when no other one failed).
C7_RunFailsWithAFailure ==
    \A n \in FailedActivities :
        /\ \A e \in Enclosing(n) : status[e] # "ok"
        /\ pc # "returned" /\ outcome.kind # "success" /\ outcome.snapshot = NoneV
        /\ ready = {} => pc = "failed"
        /\ pc = "failed" =>
            /\ outcome.kind = "failure"
            /\ outcome.failure \in FailedActivities
            /\ FailedActivities = {n} => outcome.failure = n

C7_Witness ==
    /\ input = SequenceBesideActivity
    /\ pc = "failed"
    /\ FailedActivities = {4}
    /\ outcome.failure = 4

OutcomeShape ==
    /\ outcome.kind \in {"none", "success", "failure"}
    /\ outcome.kind = "none" <=> pc \in {"init", "executing"}
    /\ outcome.kind = "success" <=> pc = "returned"
    /\ outcome.kind = "failure" <=> pc = "failed"
    /\ outcome.kind = "none" => (outcome.snapshot = NoneV /\ outcome.failure = 0)
    /\ outcome.kind = "success" =>
        /\ outcome.failure = 0
        /\ outcome.snapshot = DictV(variables)
        /\ \A n \in Nodes : status[n] = "ok"
        /\ ready = {}
        /\ (DOMAIN input.variables) \cup MetadataKeys \cup ResultNames \cup {"workflow_status"}
             \subseteq DOMAIN outcome.snapshot.v
    /\ outcome.kind = "failure" =>
        /\ outcome.snapshot = NoneV
        /\ outcome.failure \in FailedActivities

\* C8: a run reports at most one outcome, which never changes once reported:
\* success with the whole store (every statement completed, nothing still
\* scheduled), or failure with no snapshot.
C8_OneTerminalOutcome ==
    [][ /\ outcome.kind # "none" => outcome' = outcome
        /\ OutcomeShape' ]_vars

C8_Witness ==
    /\ input = SearchNotify
    /\ pc = "failed"
    /\ status[2] = "ok" /\ "found" \in DOMAIN variables /\ variables["found"] = future[2].value
    /\ outcome = [kind |-> "failure", snapshot |-> NoneV, failure |-> 3]

\* C9: the snapshot of a successful run maps workflow_status to "completed",
\* every other result name to what the last completed Activity storing under
\* it returned, and every initial variable that neither a result nor a
\* metadata key overwrote to its initial value.
C9_FinalSnapshot ==
    pc = "returned" =>
        LET snap == outcome.snapshot.v
        IN  /\ outcome.kind = "success" /\ outcome.snapshot.t = "dict"
            /\ "workflow_status" \in DOMAIN snap
            /\ snap["workflow_status"] = StrV(<<"completed">>)
            /\ \A x \in ResultNames \ {"workflow_status"} :
                /\ Written(x) # {}
                /\ x \in DOMAIN snap
                /\ snap[x] = trace[Max(Written(x))].val[1]
            /\ \A k \in DOMAIN input.variables :
                (k \notin MetadataKeys \cup {"workflow_status"} /\ Written(k) = {})
                => (k \in DOMAIN snap /\ snap[k] = input.variables[k])
            /\ input = SearchNotify =>
                (snap["found"] = future[2].value /\ args[3] = <<snap["found"]>>)

C9_Witness ==
    /\ input = RaceThenUse
    /\ pc = "returned"
    /\ future[3].value # future[4].value
    /\ Pos("complete", 4) < Pos("complete", 3)
    /\ outcome.snapshot.v["r"] = future[3].value
    /\ future[5].value = IntV(7)

\* C10: resolve_argument on a reference without a dot returns the value stored
\* under that name when the name is a key of the store, whatever the value,
\* and the reference itself when it is not.
C10_ResolvePlainName ==
    (pc = "resolved" /\ ~HasDot(resolved_arg)) =>
        LET name == Piece(resolved_arg)
        IN  /\ name \in DOMAIN variables => resolved_value = variables[name]
            /\ name \notin DOMAIN variables => resolved_value = StrV(resolved_arg)

C10_Witness ==
    /\ pc = "resolved"
    /\ resolved_arg = <<"b">>
    /\ "b" \in DOMAIN variables /\ variables["b"] = NoneV
    /\ resolved_value = NoneV

\* the walk of a dotted reference read off the store alone: the value under
\* the last key when every key on the way is a key of a mapping, nothing
\* otherwise
RECURSIVE PathValue(_, _, _)
PathValue(keys, i, value) ==
    IF i > Len(keys) THEN [found |-> TRUE, value |-> value]
    ELSE IF value.t = "dict" /\ keys[i] \in DOMAIN value.v
         THEN PathValue(keys, i + 1, value.v[keys[i]])
         ELSE [found |-> FALSE, value |-> NoneV]

\* C11: resolve_argument on a dotted reference k1.k2...kn returns the value
\* stored at the final key, whatever it is (null included), when every step
\* finds a mapping that contains the key, and the full reference string when
\* some step finds a non-mapping or a missing key.
C11_ResolveDottedPath ==
    (pc = "resolved" /\ HasDot(resolved_arg)) =>
        LET path == PathValue(Split(resolved_arg), 1, DictV(variables))
        IN  resolved_value = IF path.found THEN path.value ELSE StrV(resolved_arg)

ValueTypes == { "none", "int", "bool", "str", "dict" }

\* C12: resolve_argument is pure and total on strings: on every store it
\* returns a value for every reference string, and a call leaves the store,
\* its key set and every stored value, as it was.
C12_ResolvePureTotal ==
    [][ pc = "resolve" =>
          /\ pc' = "resolved"
          /\ resolved_arg' \in References
          /\ resolved_value' = resolve_argument(variables, resolved_arg')
          /\ resolved_value'.t \in ValueTypes
          /\ variables' = variables ]_vars

C12_Witness ==
    /\ pc = "resolved"
    /\ resolved_arg = <<"missing">>
    /\ resolved_value = StrV(<<"missing">>)
    /\ DOMAIN variables = {"a", "b"}
    /\ variables["a"].t = "dict"

\* the raw nodes of the loaded document, and whether a load has been tried
RawNodes == source.doc.nodes
LoadTried == source.exists /\ pc # "load"

KindOrder == << "activity", "sequence", "parallel" >>

\* the first of activity, sequence, parallel among the keys, "none" without one
FirstKind(keys) ==
    LET present == { i \in 1..3 : KindOrder[i] \in keys }
    IN  IF present = {} THEN "none" ELSE KindOrder[Min(present)]

\* the raw nodes of the tree under raw node n, parents before children and
\* children in list order, a node's children being those listed under its
\* first kind
RECURSIVE PreOrder(_), PreOrderList(_, _)
PreOrder(n) ==
    LET kind == FirstKind(RawNodes[n].keys)
    IN  <<n>> \o (IF kind = "sequence" THEN PreOrderList(RawNodes[n].elements, 1)
                  ELSE IF kind = "parallel" THEN PreOrderList(RawNodes[n].branches, 1)
                  ELSE <<>>)
PreOrderList(list, k) ==
    IF k > Len(list) THEN <<>>
    ELSE PreOrder(list[k]) \o PreOrderList(list, k + 1)

Tree == { PreOrder(1)[i] : i \in DOMAIN PreOrder(1) }
Unknown == { n \in Tree : FirstKind(RawNodes[n].keys) = "none" }
Nameless == { n \in Tree : FirstKind(RawNodes[n].keys) = "activity"
                            /\ ~RawNodes[n].activity.name.present }

\* the raw nodes reached from n through nodes that have exactly one kind
RECURSIVE ReachedStrictly(_)
ReachedStrictly(n) ==
    {n} \cup
    (IF RawNodes[n].keys \cap Kinds = {"sequence"}
     THEN UNION { ReachedStrictly(RawNodes[n].elements[i]) : i \in DOMAIN RawNodes[n].elements }
     ELSE IF RawNodes[n].keys \cap Kinds = {"parallel"}
     THEN UNION { ReachedStrictly(RawNodes[n].branches[i]) : i \in DOMAIN RawNodes[n].branches }
     ELSE {})

\* C13 (as stated): a raw node is accepted only with exactly one of the keys
\* activity, sequence, parallel; with none, and with two or three of them, the
\* load ends in a parse error.
C13_ExactlyOneKind ==
    LoadTried =>
        ((\E n \in ReachedStrictly(1) : Cardinality(RawNodes[n].keys \cap Kinds) # 1)
         => load_error = "ValueError")

\* C13 (amended): a raw node is parsed as the first of activity, sequence,
\* parallel among its keys, whatever other keys it has; the load ends in the
\* parse error only for a node of the tree that has none of the three.
C13_FirstKindPresent ==
    LoadTried =>
        /\ Unknown # {} => load_error # ""
        /\ load_error = "ValueError" => Unknown # {}
        /\ load_error = "" =>
             /\ DOMAIN input.nodes = DOMAIN PreOrder(1)
             /\ \A i \in DOMAIN input.nodes :
                  input.nodes[i].kind = FirstKind(RawNodes[PreOrder(1)[i]].keys)

C13_Witness ==
    /\ source = Source(KeyedRoot({"activity", "sequence", "parallel"}))
    /\ pc = "executing"
    /\ load_error = ""
    /\ Len(input.nodes) = 1 /\ input.nodes[1].kind = "activity"
    /\ status[1] = "running"

\* C14: when the definition file does not exist, or a node of the tree has
\* none of activity, sequence, parallel, the load fails, no run is started
\* and nothing is invoked, the operations of the well-formed nodes before the
\* malformed one included.
C14_LoadErrorsPrecedeExecution ==
    (source \in Sources /\ (~source.exists \/ Unknown # {})) =>
        /\ pc \in { "load", "load_failed" }
        /\ pc = "load_failed" =>
             /\ ~source.exists => load_error = "FileNotFoundError"
             /\ (source.exists /\ Nameless = {}) => load_error = "ValueError"
             /\ load_error # ""
        /\ trace = <<>>
        /\ ready = {}
        /\ variables = EmptyDict
        /\ outcome = NoOutcome
        /\ \A n \in DOMAIN status : status[n] = "pending" /\ attempts[n] = 0

C14_Witness ==
    /\ source = Source(RawMalformedLast)
    /\ pc = "load_failed"
    /\ load_error = "ValueError"
    /\ trace = <<>>

\* C15 (as stated): an activity node without a name, or with an empty name,
\* is rejected with a parse error; absent or null arguments give an empty
\* argument list and an absent result gives no result name.
C15_NameRequiredNonEmpty ==
    LoadTried =>
        /\ (\E n \in Tree : /\ FirstKind(RawNodes[n].keys) = "activity"
                            /\ \/ ~RawNodes[n].activity.name.present
                               \/ RawNodes[n].activity.name.value = "")
           => load_error # ""
        /\ load_error = "" =>
             \A i \in DOMAIN input.nodes : input.nodes[i].kind = "activity" =>
                LET raw == RawNodes[PreOrder(1)[i]].activity
                IN  /\ (~raw.arguments.present \/ raw.arguments.null)
                        => input.nodes[i].arguments = <<>>
                    /\ ~raw.result.present => input.nodes[i].result = NoResult

\* C15 (amended): an activity node without a name fails the load (KeyError);
\* with a name, the empty string included, it is parsed with that name, with
\* the arguments given or the empty list when they are absent or null, and
\* with the result name given or none when it is absent or null.
C15_NameRequired ==
    LoadTried =>
        /\ Nameless # {} => load_error # ""
        /\ load_error = "KeyError" => Nameless # {}
        /\ (Nameless = {} /\ Unknown = {}) => load_error = ""
        /\ load_error = "" =>
             /\ DOMAIN input.nodes = DOMAIN PreOrder(1)
             /\ \A i \in DOMAIN input.nodes : input.nodes[i].kind = "activity" =>
                  LET raw == RawNodes[PreOrder(1)[i]].activity
                  IN  /\ raw.name.present
                      /\ input.nodes[i].name = raw.name.value
                      /\ input.nodes[i].arguments =
                            IF raw.arguments.present /\ ~raw.arguments.null
                            THEN raw.arguments.value ELSE <<>>
                      /\ input.nodes[i].result =
                            IF raw.result.present /\ ~raw.result.null
                            THEN [some |-> TRUE, name |-> raw.result.value]
                            ELSE [some |-> FALSE, name |-> ""]

C15_Witness ==
    /\ source = Source(RawDocument(Given(OneVariable),
                   << RawActivityNode(Given(""), Null(<<>>), Absent("")) >>))
    /\ pc = "init"
    /\ load_error = ""
    /\ input.nodes[1].name = ""
    /\ input.nodes[1].arguments = <<>>
    /\ input.nodes[1].result = NoResult

\* C16: a load that succeeds returns a DSLInput whose variables is a mapping,
\* the one of the document when it gives a non-null one and the empty mapping
\* when the variables key is absent or null, and run can seed the store from it.
C16_VariablesIsMapping ==
    (LoadTried /\ load_error = "") =>
        /\ input.variables = IF source.doc.variables.present /\ ~source.doc.variables.null
                             THEN source.doc.variables.value
                             ELSE EmptyDict
        /\ pc # "task_failed"

\* C17: from the moment the root starts executing, the store holds the run's
\* own metadata under workflow_id, run_id, workflow_type and attempt, whatever
\* the definition's variables gave under these names, and every other initial
\* variable with its initial value (until an Activity result, or the final
\* workflow_status, is written under the name).
C17_MetadataWinsOnSeeding ==
    pc \in { "executing", "returned", "failed" } =>
        /\ \A k \in MetadataKeys : Written(k) = {} =>
             /\ k \in DOMAIN variables
             /\ variables[k] = Info[k]
        /\ \A k \in DOMAIN input.variables \ MetadataKeys :
             (Written(k) = {} /\ ~(k = "workflow_status" /\ pc = "returned")) =>
                /\ k \in DOMAIN variables
                /\ variables[k] = input.variables[k]
        /\ \A n \in Nodes : (IsActivity(n) /\ status[n] # "pending") =>
             \A i \in 1..Len(Node(n).arguments) :
                \A k \in MetadataKeys :
                    (Node(n).arguments[i] = <<k>> /\ Written(k) = {}) => args[n][i] = Info[k]

C17_Witness ==
    /\ input = RaceThenUse
    /\ input.variables["run_id"] = StrV(<<"mine">>)
    /\ status[5] = "running"
    /\ variables["run_id"] = StrV(<<"run-1">>)
    /\ args[5][2] = StrV(<<"run-1">>)
    /\ variables["workflow_status"] = StrV(<<"mine">>)

\* C18: one execution of an Activity causes between 1 and 3 attempts of its
\* operation, the Activity fails only with its third attempt, and no
\* statement is started or completed a second time.
C18_RetryBoundedByPolicy ==
    /\ \A n \in Nodes : IsActivity(n) =>
         /\ status[n] = "pending" => attempts[n] = 0
         /\ status[n] # "pending" => attempts[n] \in 1..3
         /\ future[n].state = "err" => attempts[n] = 3
         /\ status[n] = "err" => (future[n].state = "err" /\ failure[n] = n)
         /\ status[n] = "ok" => future[n].state = "ok"
    /\ \A i, j \in 1..Len(trace) :
         (i < j /\ trace[i].node = trace[j].node) => trace[i].ev # trace[j].ev

C18_Witness ==
    /\ input = TwoBranches
    /\ status[2] = "err" /\ attempts[2] = 3
    /\ status[3] = "ok" /\ attempts[3] = 2
    /\ pc = "failed"

\* the store after Activity n completed with the value of its future, when
\* stores tells whether its result name is one that is written; the
\* workflow_status of run is added when this completion ends the run
StoreAfter(n, stores) ==
    LET name == Node(n).result.name
        written == IF stores
                   THEN [k \in DOMAIN variables \cup {name} |->
                            IF k = name THEN future[n].value ELSE variables[k]]
                   ELSE variables
    IN  IF pc # "returned" /\ pc' = "returned"
        THEN [k \in DOMAIN written \cup {"workflow_status"} |->
                 IF k = "workflow_status" THEN StrV(<<"completed">>) ELSE written[k]]
        ELSE written

\* C19 (as stated): an Activity with a result name, whatever string it is (the
\* empty string and the metadata keys included), that succeeds with v leaves
\* the store mapping the name to v and every other key as it was; an Activity
\* without a result name, and one that fails, leave the store as it was.
C19_StoreWriteAnyName ==
    [][ \A n \in Nodes : (IsActivity(n) /\ status[n] = "running") =>
          /\ status'[n] = "ok" => variables' = StoreAfter(n, Node(n).result.some)
          /\ status'[n] = "err" => variables' = variables ]_vars

\* C19 (amended): the same for every result name but the empty string; an
\* Activity whose result name is the empty string leaves the store as it was,
\* like one without a result name.
C19_StoreWriteNonEmptyName ==
    [][ \A n \in Nodes : (IsActivity(n) /\ status[n] = "running") =>
          /\ status'[n] = "ok" =>
                variables' = StoreAfter(n, Node(n).result.some /\ Node(n).result.name # "")
          /\ status'[n] = "err" => variables' = variables ]_vars

C19_Witness ==
    /\ input = OverwriteMetadata
    /\ status[2] = "ok"
    /\ status[3] = "running"
    /\ variables["run_id"] = IntV(7)
    /\ args[3] = << IntV(7) >>
    /\ variables["workflow_id"] = StrV(<<"dsl-workflow-1">>)

\* C20: the key set of the store only grows: a key that is in the store stays
\* in it in every later state of the run.
C20_KeysOnlyGrow ==
    [][ DOMAIN variables \subseteq DOMAIN variables' ]_vars

C20_Witness ==
    /\ input = TwoBranches
    /\ pc = "returned"
    /\ DOMAIN variables = MetadataKeys \cup { "x", "y", "workflow_status" }

\* C21: after the join of a Parallel, the result name of every Activity under
\* it is in the store, mapped to the result of the Activity that completed
\* last among those that store under this name: with distinct names each
\* branch finds its own result, with a shared name the last completion wins.
C21_ParallelWrites ==
    \A p \in Nodes : (IsParallel(p) /\ status[p] = "ok") =>
        \A a \in Activities(p) : Truthy(Node(a).result) =>
            LET name == Node(a).result.name
                writers == { n \in Nodes : IsActivity(n) /\ Truthy(Node(n).result)
                                           /\ Node(n).result.name = name }
            IN  /\ name \in DOMAIN variables
                /\ Written(name) # {}
                /\ variables[name] = trace[Max(Written(name))].val[1]
                /\ variables[name] = future[trace[Max(Written(name))].node].value
                /\ writers = {a} => variables[name] = future[a].value

C21_Witness ==
    /\ input = RaceThenUse
    /\ status[2] = "ok"
    /\ status[5] = "running"
    /\ Pos("complete", 4) < Pos("complete", 3)
    /\ future[3].value = IntV(7) /\ future[4].value = IntV(8)
    /\ variables["r"] = IntV(7)

\* C22: the failure of a child run is not retried: an Activity that starts a
\* child run starts at most one for one execution of the statement, and makes
\* no further attempt once its child run has failed.
C22_ChildFailureNotRetried ==
    \A n \in Nodes : IsChildStarter(n) =>
        /\ Cardinality(ChildrenOf(n)) <= 1
        /\ (\E c \in ChildrenOf(n) : children[c].pc = "failed") => attempts[n] = 1

ChildResultNames(r) ==
    { r.input.nodes[e].result.name :
        e \in { x \in DOMAIN r.input.nodes : /\ r.input.nodes[x].kind = "activity"
                                             /\ r.input.nodes[x].result.some } }

\* C23: a child run has an identity of its own and a store made of the
\* variables of its own definition, its own metadata and its own results;
\* the parent's store is made of the parent's variables, metadata and results,
\* a child's store reaching it only as the result of the invoking Activity.
C23_RunStoresIsolated ==
    /\ \A c \in DOMAIN children :
         LET r == children[c]
         IN  /\ r.info.workflow_id # Info.workflow_id
             /\ r.info.run_id # Info.run_id
             /\ \A d \in DOMAIN children : d # c =>
                  /\ children[d].info.workflow_id # r.info.workflow_id
                  /\ children[d].info.run_id # r.info.run_id
             /\ DOMAIN r.variables \subseteq
                  DOMAIN r.input.variables \cup MetadataKeys
                  \cup ChildResultNames(r) \cup {"workflow_status"}
             /\ \A k \in DOMAIN r.variables :
                  \/ k \in ChildResultNames(r) /\ r.variables[k] \in ChildResultValues
                  \/ k \in MetadataKeys /\ r.variables[k] = r.info[k]
                  \/ k \in DOMAIN r.input.variables /\ r.variables[k] = r.input.variables[k]
                  \/ /\ k = "workflow_status" /\ r.pc = "returned"
                     /\ r.variables[k] = StrV(<<"completed">>)
    /\ \A k \in DOMAIN variables :
         \/ k \in ResultNames /\ variables[k] \in ResultValues
         \/ k \in MetadataKeys /\ variables[k] = Info[k]
         \/ k \in DOMAIN input.variables /\ variables[k] = input.variables[k]
         \/ /\ k = "workflow_status" /\ pc = "returned"
            /\ variables[k] = StrV(<<"completed">>)
         \/ \E n \in Nodes :
              /\ IsChildStarter(n) /\ Node(n).result = [some |-> TRUE, name |-> k]
              /\ status[n] = "ok"
              /\ \E c \in ChildrenOf(n) :
                   /\ children[c].pc = "returned"
                   /\ variables[k].t = "dict"
                   /\ variables[k].v["child_workflow_id"] = children[c].info.workflow_id
                   /\ variables[k].v["child_result"] = DictV(children[c].variables)

C23_Witness ==
    /\ input = ChildBesideActivity
    /\ Len(children) = 1
    /\ children[1].pc = "returned"
    /\ children[1].variables["k"] = IntV(21)
    /\ children[1].variables["run_id"] = StrV(<<"child-run-", "1">>)
    /\ status[2] = "ok" /\ status[3] = "ok"
    /\ variables["k"] = IntV(7)
    /\ variables["out"].v["child_result"] = DictV(children[1].variables)

\* C24: when every operation invocation eventually returns and every
\* scheduled callback eventually runs, the run reaches a terminal outcome, a
\* snapshot or a failure: it does not wait forever at a Sequence step or at a
\* Parallel join.
C24_Terminates ==
    <>(/\ pc \in { "returned", "failed" }
       /\ outcome.kind \in { "success", "failure" })

C24_Witness ==
    /\ input = RaceThenUse
    /\ pc = "returned"
    /\ outcome.kind = "success"
    /\ \A n \in Nodes : status[n] = "ok"

\* C25: once a Parallel has started, the first step of each of its branches
\* is scheduled or has run, whatever the state of the other branches: no
\* branch waits for another one to complete before it starts.
C25_BranchesStartIndependently ==
    \A p \in Nodes : (IsParallel(p) /\ status[p] # "pending") =>
        \A b \in Children(p) :
            \/ status[b] # "pending"
            \/ Handle("step", b) \in ready

\* X and Y both in flight on their first attempt, neither completed
C25_Witness ==
    /\ input = TwoBranches
    /\ status[2] = "running" /\ future[2].state = "pending"
    /\ status[3] = "running" /\ future[3].state = "pending"
    /\ attempts[2] = 1 /\ attempts[3] = 1
    /\ Pos("complete", 2) = 0 /\ Pos("complete", 3) = 0

\* C26: no step of a run changes the DSLInput it was given: the statement
\* tree and the variables mapping stay what they were when the run started,
\* so the definition seeds the same store when it is used again.
C26_DefinitionUnchanged ==
    [][ pc # "load" => input' = input ]_vars

C26_Witness ==
    /\ input = SearchNotify
    /\ pc = "returned"
    /\ variables["found"] = IntV(7)
    /\ input.variables["found"] = IntV(0)
    /\ "workflow_status" \notin DOMAIN input.variables

EmptyStatement(n) == ~IsActivity(n) /\ Node(n).children = <<>>

\* the seeded store of the run with workflow_status = completed
SeededCompleted ==
    [k \in DOMAIN input.variables \cup MetadataKeys \cup {"workflow_status"} |->
        IF k = "workflow_status" THEN StrV(<<"completed">>)
        ELSE IF k \in MetadataKeys THEN Info[k]
        ELSE input.variables[k]]

\* the log records added by the step
Added == { i \in 1..Len(trace') : i > Len(trace) }

\* C27: an empty Sequence or Parallel succeeds in the step that starts it and
\* never fails; the step writes nothing to the store on its account, and the
\* enclosing statement goes on: the Sequence to its next element, the Parallel
\* to count the branch as finished. With an empty root the run returns the
\* seeded store plus workflow_status = completed.
C27_EmptyStatementsAreNoOps ==
    [][ \A n \in Nodes : EmptyStatement(n) =>
          /\ status'[n] \in { "pending", "ok" }
          /\ failure'[n] = 0
          /\ (status[n] = "pending" /\ status'[n] = "ok") =>
                /\ \E i \in Added : trace'[i].node = n
                /\ \A i \in Added : trace'[i].node = n => trace'[i].ev # "invoke"
                /\ (pc # "init" /\ \A i \in Added : trace'[i].ev # "complete") =>
                      \A k \in DOMAIN variables :
                         k \in DOMAIN variables' /\ (k # "workflow_status" => variables'[k] = variables[k])
                /\ n = Root =>
                      /\ pc' = "returned"
                      /\ outcome'.kind = "success"
                      /\ outcome'.snapshot = DictV(SeededCompleted)
                      /\ variables' = SeededCompleted
                      /\ \A i \in 1..Len(trace') : trace'[i].ev # "invoke"
                /\ (n # Root /\ IsSequence(Caller(n))) =>
                      \/ status'[Caller(n)] = "ok"
                      \/ /\ status'[Caller(n)] = "running"
                         /\ Elem(Caller(n), idx'[Caller(n)]) # n
                         /\ status'[Elem(Caller(n), idx'[Caller(n)])] # "pending"
                /\ (n # Root /\ IsParallel(Caller(n))) =>
                      Handle("done", n) \in ready' ]_vars

C27_Witness ==
    /\ input = EmptyBranches
    /\ status[2] = "ok" /\ status[3] = "ok"
    /\ status[4] = "running"
    /\ gather[1].nfinished = 2
    /\ DOMAIN variables = MetadataKeys

\* C28: once the run has reported its terminal outcome, no step of it starts an
\* operation or writes the store; and once a Parallel has reported a branch's
\* failure, no branch of it starts a further Activity or stores a result.
C28_NothingAfterTerminalOutcome ==
    [][ /\ pc \in { "returned", "failed" } =>
            /\ variables' = variables
            /\ \A i \in Added : trace'[i].ev # "invoke"
        /\ \A p \in Nodes : (IsParallel(p) /\ status[p] = "err") =>
            \A i \in Added :
                (trace'[i].ev \in { "invoke", "complete" }) =>
                    trace'[i].node \notin Descendants(p) ]_vars

\* how many records of kind ev the log holds for statement n
Count(ev, n) ==
    Cardinality({ i \in 1..Len(trace) : trace[i].ev = ev /\ trace[i].node = n })

\* C29: no Activity leaf is executed more than once in a run (its retry
\* attempts belong to the one execution), and when the run has returned, every
\* Activity leaf of the tree has been executed exactly once and has succeeded.
C29_EachActivityOnce ==
    \A a \in Activities(Root) :
        /\ Count("invoke", a) <= 1
        /\ Count("complete", a) <= Count("invoke", a)
        /\ (status[a] # "pending") = (Count("invoke", a) = 1)
        /\ pc = "returned" =>
              /\ Count("invoke", a) = 1
              /\ Count("complete", a) = 1
              /\ status[a] = "ok"

C29_Witness ==
    /\ input = SequenceThenParallel
    /\ pc = "returned"
    /\ \E a \in Activities(Root) : attempts[a] = MaxAttempts
    /\ \A a \in Activities(Root) : Count("invoke", a) = 1

\* C30: the step that starts an Activity resolves its arguments, in order,
\* against the store as it is in that step, into a list as long as the
\* statement's arguments; from then on the list handed to the substrate stays
\* the same, whatever attempt is made and whatever is written to the store.
C30_ArgumentsResolvedOnce ==
    [][ \A n \in Activities(Root) :
          /\ (status[n] = "pending" /\ status'[n] = "running") =>
                /\ attempts'[n] = 1
                /\ Len(args'[n]) = Len(Node(n).arguments)
                /\ args'[n] = ResolveArguments(variables', Node(n).arguments)
                /\ trace'[Len(trace')] = Event("invoke", n, args'[n])
          /\ status[n] # "pending" => args'[n] = args[n] ]_vars

\* B is at its second attempt with A's value of a, while C has overwritten a
C30_Witness ==
    /\ input = SequenceBesideActivity
    /\ status[4] = "running" /\ attempts[4] = 2
    /\ status[5] = "ok"
    /\ args[4][1] # variables["a"]
    /\ args[4][2] = IntV(5)

\* the value a reference without a dot had when the log had p - 1 records: the
\* last result stored under it by any Activity, else the seeded value, else
\* the reference itself
ValueBefore(x, p) ==
    LET W == { j \in Written(x) : j < p }
        seeded == SeedVariables(input.variables)
    IN  IF W # {} THEN trace[Max(W)].val[1]
        ELSE IF x \in DOMAIN seeded THEN seeded[x]
        ELSE StrV(<<x>>)

\* C31: the branches of a Parallel share one store. An Activity's argument
\* that names a variable is the value last stored under that name by any
\* Activity of the tree before the Activity started, in whatever branch the
\* writer is and whether or not the Parallel has joined.
C31_BranchesShareStore ==
    \A n \in Activities(Root) : Pos("invoke", n) > 0 =>
        \A i \in 1..Len(Node(n).arguments) :
            Len(Node(n).arguments[i]) = 1 =>
                /\ trace[Pos("invoke", n)].val[i]
                     = ValueBefore(Node(n).arguments[i][1], Pos("invoke", n))
                /\ args[n][i] = trace[Pos("invoke", n)].val[i]

\* B started with the value C stored, while the Parallel has not joined
C31_Witness ==
    /\ input = SharedRead
    /\ status[1] = "running"
    /\ status[4] = "running"
    /\ 0 < Pos("complete", 5) /\ Pos("complete", 5) < Pos("invoke", 4)
    /\ args[4][1] = future[5].value
    /\ args[4][1] = variables["c"]
    /\ args[4][2] = future[3].value

\* C32: a run fails through a start_child_workflow Activity only when a child
\* run that Activity started has failed or its definition could not be loaded
\* (with the child's operations succeeding, the parent goes on), and the
\* Activity completes only with the result of a child run that has returned.
C32_CompositionCompletes ==
    \A n \in Nodes : IsChildStarter(n) =>
        /\ status[n] = "err" =>
              \/ ChildLoad(n).error # ""
              \/ \E c \in ChildrenOf(n) : children[c].pc = "failed"
        /\ status[n] = "ok" =>
              \E c \in ChildrenOf(n) :
                  /\ children[c].pc = "returned"
                  /\ future[n].value = ChildResult(children[c])

\* C33: the store a run started by /execute-workflow begins with holds, for
\* each of the nine request parameters, the request's value; for every other
\* variable of the definition, the definition's value; and under the metadata
\* keys the run's metadata, whatever the request or the definition gave.
C33_OverridesApplied ==
    [][ (request.endpoint = "execute-workflow" /\ pc = "init" /\ pc' = "executing") =>
          LET definition == get_variables(source.doc)
          IN  /\ \A k \in RequestParameters : input.variables[k] = request.parameters[k]
              /\ variables' =
                   [k \in DOMAIN definition \cup RequestParameters \cup MetadataKeys |->
                       IF k \in MetadataKeys THEN Info[k]
                       ELSE IF k \in RequestParameters THEN request.parameters[k]
                       ELSE definition[k]] ]_vars

C33_Witness ==
    /\ request = [endpoint |-> "execute-workflow", parameters |-> CustomParameters]
    /\ source = Source(RawPipeline)
    /\ pc = "executing"
    /\ variables["shipper_id"] = StrV(<<"acme">>)
    /\ variables["date_range_days"] = IntV(7)
    /\ variables["k"] = IntV(1)
    /\ variables["run_id"] = Info.run_id
    /\ args[2] = << StrV(<<"acme">>), StrV(<<"SAM">>), IntV(1) >>

\* C34: the response to a successful run reports under workflow_id the id the
\* run was started under and holds every field the endpoint wrote itself
\* (workflow_type, workflow_name, parameters, ...) with the value the endpoint
\* gave it, whatever the run's snapshot contains.
C34_ResponseKeepsOwnFields ==
    response.status = 200 =>
        /\ response.body["workflow_id"] = Info.workflow_id
        /\ \A k \in DOMAIN OwnFields : response.body[k] = OwnFields[k]

\* C35: a pipeline has at most one schedule, under its fixed id. A start for
\* an id that has a schedule is answered 409 and leaves every schedule as it
\* is; a start for an id that has none (never created, or deleted) is answered
\* 200 and creates the schedule.
C35_StartConflicts ==
    [][ /\ DOMAIN schedules' \subseteq ScheduleIds
        /\ (pc = "serving" /\ request.endpoint = "start") =>
              IF RequestedId \in DOMAIN schedules
              THEN response'.status = 409 /\ schedules' = schedules
              ELSE /\ response'.status = 200
                   /\ DOMAIN schedules' = DOMAIN schedules \cup {RequestedId}
                   /\ \A k \in DOMAIN schedules : schedules'[k] = schedules[k] ]_vars

PipelineOrder ==
    <<"load_search", "send_email", "process_email", "extract_data", "update_load">>

StepName(i) == PipelineSteps[trace[i].node].name

InvokedAt == { i \in 1..Len(trace) : trace[i].ev = "invoke" }

\* the number of activities invoked before position i of the log
InvokedBefore(i) == Cardinality({ j \in InvokedAt : j < i })

\* C37: LoadProcessingWorkflow invokes load_search, send_email,
\* process_email, extract_data and update_load in exactly that order, each
\* only after the previous one completed, with the 20-second wait between
\* send_email and process_email; it returns workflow_status = completed only
\* after update_load completed, and after a failure of a step no later step is
\* invoked.
C37_PipelineOrder ==
    /\ \A i \in InvokedAt :
          /\ InvokedBefore(i) < Len(PipelineOrder)
          /\ StepName(i) = PipelineOrder[InvokedBefore(i) + 1]
          /\ i > 1 =>
                IF StepName(i) = "process_email"
                THEN /\ i > 3
                     /\ trace[i - 1].ev = "wake"
                     /\ trace[i - 2].ev = "sleep" /\ trace[i - 2].val = <<20>>
                     /\ trace[i - 3].ev = "complete" /\ StepName(i - 3) = "send_email"
                ELSE /\ trace[i - 1].ev = "complete"
                     /\ StepName(i - 1) = PipelineOrder[InvokedBefore(i)]
    /\ \A i \in 1..Len(trace) :
          trace[i].ev = "sleep" =>
              i > 1 /\ trace[i - 1].ev = "complete" /\ StepName(i - 1) = "send_email"
    /\ (outcome.kind = "success") <=> (pc = "returned")
    /\ pc = "returned" =>
          /\ outcome.snapshot.v["workflow_status"] = StrV(<<"completed">>)
          /\ trace[Len(trace)].ev = "complete"
          /\ StepName(Len(trace)) = "update_load"
          /\ Cardinality(InvokedAt) = Len(PipelineOrder)
    /\ pc = "failed" =>
          /\ trace[Len(trace)].ev = "invoke"
          /\ trace[Len(trace)].node = outcome.failure
          /\ outcome.kind = "failure"

\* the pipeline ran to the end: five activities, the wait after the second
C37_Witness ==
    /\ pc = "returned"
    /\ Cardinality(InvokedAt) = 5
    /\ \E i \in 1..Len(trace) : trace[i].ev = "wake"

\* the pipeline failed at a step after the first, with later steps left
C37_WitnessFailure ==
    /\ pc = "failed"
    /\ outcome.failure = 4
    /\ Cardinality(InvokedAt) = 3

\* the raw node the i-th statement of the loaded definition was parsed from
RawOf(i) == PreOrder(1)[i]

\* the raw nodes listed under raw node r for the kind it is parsed as
RawChildren(r) ==
    IF FirstKind(RawNodes[r].keys) = "sequence" THEN RawNodes[r].elements
    ELSE IF FirstKind(RawNodes[r].keys) = "parallel" THEN RawNodes[r].branches
    ELSE <<>>

\* C38: parse preserves structure: the loaded tree has the nesting of the raw
\* tree (a raw node being read as the first of activity, sequence, parallel
\* among its keys), the elements of every Sequence and the branches of every
\* Parallel are the parsed raw elements and branches in the same order and
\* number, and every Activity keeps its name, its arguments in order as
\* written (none when absent or null) and its result name, also after the run
\* has resolved them.
C38_ParsePreservesStructure ==
    (LoadTried /\ load_error = "") =>
        /\ Len(input.nodes) = Len(PreOrder(1))
        /\ \A i \in DOMAIN input.nodes :
              LET node == input.nodes[i]
                  raw == RawNodes[RawOf(i)]
              IN  /\ node.kind = FirstKind(raw.keys)
                  /\ Len(node.children) = Len(RawChildren(RawOf(i)))
                  /\ \A k \in DOMAIN node.children :
                        /\ node.children[k] \in DOMAIN input.nodes
                        /\ node.children[k] > i
                        /\ RawOf(node.children[k]) = RawChildren(RawOf(i))[k]
                  /\ node.kind = "activity" =>
                        /\ node.name = raw.activity.name.value
                        /\ raw.activity.arguments.present /\ ~raw.activity.arguments.null
                              => node.arguments = raw.activity.arguments.value
                        /\ ~(raw.activity.arguments.present /\ ~raw.activity.arguments.null)
                              => node.arguments = <<>>
                        /\ node.result.some
                              = (raw.activity.result.present /\ ~raw.activity.result.null)
                        /\ node.result.some => node.result.name = raw.activity.result.value

\* Parallel[X -> x, Sequence[Y -> y, Z(y)]] was loaded and has run to the end
C38_Witness ==
    /\ source = Source(RawParallelOfSequence)
    /\ load_error = ""
    /\ pc = "returned"
    /\ Len(input.nodes) = 5
    /\ input.nodes[1].children = <<2, 3>>
    /\ input.nodes[3].children = <<4, 5>>
    /\ input.nodes[5].arguments = << <<"y">> >>

====
